---- MODULE Spec2Model ----
(***************************************************************************)
(* Model of igfx_bot: the daily risk governor (risk.py) and the scheduled  *)
(* orchestration job (runner.py) that drives it.                           *)
(*                                                                         *)
(* Money, prices and percentages are Python floats in the source.  Here    *)
(* they are integers (prices in ticks, money in account units) and every   *)
(* division is carried out on exact fractions <<numerator, denominator>>,  *)
(* so the arithmetic follows the source's expressions step by step but     *)
(* without binary rounding.  A Python exception is a result whose exc      *)
(* field names the exception.                                              *)
(***************************************************************************)
EXTENDS Integers, Sequences, FiniteSets, TLC

VARIABLES
    cfg,            \* RiskManager.cfg : RiskConfig
    daily_loss,     \* RiskManager._daily_loss
    daily_trades,   \* RiskManager._daily_trades
    call,           \* the last RiskManager method call: arguments, result, counters before it
    regCalls,       \* history: register_trade calls since the last reset_day
    lossSum,        \* history: sum of |pnl| over the negative pnl registered since the last reset_day
    session,        \* cfg["scheduler"]["session"]: <<start_hour, end_hour>>
    instruments,    \* cfg["instruments"]
    has_strategy,   \* cfg["strategy"]["name"] is set (strategies built at startup)
    has_sink,       \* job's sink argument is not None
    has_notifier,   \* job's notifier argument is not None
    pc,             \* position of the scheduled job: "idle" when no invocation runs
    idx,            \* index of the instrument the running job handles
    ticks,          \* scheduler ticks so far
    in_session,     \* within_session(now_utc(), ...) as the latest invocation of job found it
    orders,         \* successful Executor.place_market calls so far
    steps,          \* calls job has made for the instrument it handles
    cur,            \* job's locals for that instrument: side, close, sl, tp, size
    jobExc,         \* exception that ended the last job invocation ("none" if it returned)
    invocations,    \* invocations of job the scheduler has started
    extra,          \* invocations of job running beside the one pc follows
    skipped,        \* ticks the scheduler dropped because job was still running
    require_confirmation,   \* TelegramNotifier._require_confirmation
    confirmation_timeout,   \* TelegramNotifier._confirmation_timeout
    last_update_id, \* TelegramNotifier._last_update_id: <<>> for None, <<n>> for n
    inbox,          \* the updates the Telegram server holds for the bot, oldest first
    clock,          \* time.monotonic()
    deadline,       \* _await_confirmation's deadline
    npc,            \* position of the notifier inside handle_trade_alert
    expected_symbol,\* the symbol argument of the running handle_trade_alert
    polls,          \* getUpdates calls made by the running handle_trade_alert
    result,         \* what handle_trade_alert returned: "True", "False", "pending" before
    send_failed,    \* the alert's sendMessage call failed
    alert_pre,      \* <<last_update_id, clock, Len(inbox)>> when handle_trade_alert was entered
    requests,       \* handle_trade_alert calls so far
    main_pc,        \* position of the main thread inside main
    RUNNING,        \* runner.RUNNING
    scheduler_up,   \* the BackgroundScheduler has been started and not shut down
    logged_in,      \* the broker session: auth.login() done, auth.logout() not yet
    strategy_name,  \* cfg["strategy"]["name"], "" when none is configured
    strategies      \* main's strategies dict: the instruments that have a strategy object

riskVars == <<cfg, daily_loss, daily_trades>>
histVars == <<call, regCalls, lossSum>>
confVars == <<session, instruments, has_strategy, has_sink, has_notifier>>
jobVars  == <<pc, idx, ticks, in_session, orders, steps, cur, jobExc>>
schedVars == <<invocations, extra, skipped>>
notifVars == <<require_confirmation, confirmation_timeout, last_update_id, inbox, clock,
               deadline, npc, expected_symbol, polls, result, send_failed, alert_pre, requests>>
mainVars == <<main_pc, RUNNING, scheduler_up, logged_in, strategy_name, strategies>>
vars     == <<riskVars, histVars, confVars, jobVars, schedVars, notifVars, mainVars>>

---------------------------------------------------------------------------
\* Bounds of the model.

MaxTradesCfg == 3   \* max_daily_trades ranges over 0..MaxTradesCfg
MaxCalls     == 4   \* register_trade calls explored between two reset_day calls
MaxPnl       == 2   \* pnl arguments range over -MaxPnl..MaxPnl
MaxTicks     == 2   \* scheduler ticks explored
NumInst      == 2   \* instruments in the configuration

---------------------------------------------------------------------------
\* Exact fractions: <<n, d>> with d > 0 stands for n/d.

Rat(n) == <<n, 1>>

Frac(n, d) == IF d < 0 THEN <<-n, -d>> ELSE <<n, d>>

RatMul(a, b) == <<a[1] * b[1], a[2] * b[2]>>

\* a / b for b # 0 (a zero divisor raises ZeroDivisionError before this is used)
RatDiv(a, b) == Frac(a[1] * b[2], a[2] * b[1])

RatAbs(a) == IF a[1] < 0 THEN <<-a[1], a[2]>> ELSE a

RatGeq(a, b) == a[1] * b[2] >= b[1] * a[2]

RatLeq(a, b) == a[1] * b[2] <= b[1] * a[2]

\* Python's a // 1: the largest integer not above a
RatFloor(a) == a[1] \div a[2]

Max(a, b) == IF a >= b THEN a ELSE b

Abs(n) == IF n < 0 THEN -n ELSE n

\* A returned value, and a raised exception.
Ret(v) == [exc |-> "none", val |-> v]

Raise(e, v) == [exc |-> e, val |-> v]

---------------------------------------------------------------------------
\* risk.py

\* RiskConfig: the configurations explored.  balance = 0 is an account with no
\* funds; max_daily_trades = 0 and max_daily_loss_pct = 0 forbid trading.
RiskConfigs ==
    [balance : {0, 100},
     risk_per_trade_pct : {1, 50},
     rr_ratio : {2},
     max_daily_loss_pct : {0, 3},
     max_daily_trades : 0..MaxTradesCfg]

\* can_trade with the trade limit compared by > (one trade too many passes)
can_trade_trades_gt(loss, trades, c) ==
    IF trades > c.max_daily_trades THEN Ret(FALSE)
    ELSE IF c.balance = 0 THEN Raise("ZeroDivisionError", FALSE)
    ELSE IF RatGeq(RatMul(RatDiv(Rat(loss), Rat(c.balance)), Rat(100)),
                   Rat(c.max_daily_loss_pct)) THEN Ret(FALSE)
    ELSE Ret(TRUE)

\* can_trade without the daily-loss test
can_trade_no_loss_check(loss, trades, c) ==
    IF trades >= c.max_daily_trades THEN Ret(FALSE)
    ELSE IF c.balance = 0 THEN Raise("ZeroDivisionError", FALSE)
    ELSE Ret(TRUE)

\* RiskManager.can_trade; self._daily_loss / self.cfg.balance raises for balance = 0
can_trade(loss, trades, c) ==
    IF trades >= c.max_daily_trades THEN Ret(FALSE)
    ELSE IF c.balance = 0 THEN Raise("ZeroDivisionError", FALSE)
    ELSE IF RatGeq(RatMul(RatDiv(Rat(loss), Rat(c.balance)), Rat(100)),
                   Rat(c.max_daily_loss_pct)) THEN Ret(FALSE)
    ELSE Ret(TRUE)

\* position_size without max(1, ...): no floor of one lot
position_size_no_min_lot(c, entry, stop, pip_size, lot_size) ==
    LET risk_amt == RatMul(Rat(c.balance), RatDiv(Rat(c.risk_per_trade_pct), Rat(100)))
    IN  IF pip_size = 0 THEN Raise("ZeroDivisionError", 0)
        ELSE LET pip_risk == RatDiv(RatAbs(Rat(entry - stop)), Rat(pip_size))
             IN  IF RatLeq(pip_risk, Rat(0)) THEN Ret(0)
                 ELSE IF lot_size = 0 THEN Raise("ZeroDivisionError", 0)
                 ELSE LET units == RatDiv(RatDiv(risk_amt, pip_risk), Rat(pip_size))
                          lots  == RatFloor(RatDiv(units, Rat(lot_size)))
                      IN  Ret(lots * lot_size)

\* position_size without the "pip_risk <= 0" guard: risk_amt / pip_risk raises
position_size_no_guard(c, entry, stop, pip_size, lot_size) ==
    LET risk_amt == RatMul(Rat(c.balance), RatDiv(Rat(c.risk_per_trade_pct), Rat(100)))
    IN  IF pip_size = 0 THEN Raise("ZeroDivisionError", 0)
        ELSE LET pip_risk == RatDiv(RatAbs(Rat(entry - stop)), Rat(pip_size))
             IN  IF pip_risk[1] = 0 \/ lot_size = 0 THEN Raise("ZeroDivisionError", 0)
                 ELSE LET units == RatDiv(RatDiv(risk_amt, pip_risk), Rat(pip_size))
                          lots  == Max(1, RatFloor(RatDiv(units, Rat(lot_size))))
                      IN  Ret(lots * lot_size)

\* RiskManager.position_size; / pip_size and // lot_size raise for a zero divisor
position_size(c, entry, stop, pip_size, lot_size) ==
    LET risk_amt == RatMul(Rat(c.balance), RatDiv(Rat(c.risk_per_trade_pct), Rat(100)))
    IN  IF pip_size = 0 THEN Raise("ZeroDivisionError", 0)
        ELSE LET pip_risk == RatDiv(RatAbs(Rat(entry - stop)), Rat(pip_size))
             IN  IF RatLeq(pip_risk, Rat(0)) THEN Ret(0)
                 ELSE IF lot_size = 0 THEN Raise("ZeroDivisionError", 0)
                 ELSE LET units == RatDiv(RatDiv(risk_amt, pip_risk), Rat(pip_size))
                          lots  == Max(1, RatFloor(RatDiv(units, Rat(lot_size))))
                      IN  Ret(lots * lot_size)

\* register_trade that nets profits against the day's losses
register_trade_net_pnl(loss, trades, pnl) ==
    <<loss - pnl, trades + 1>>

\* register_trade that counts only losing trades
register_trade_losses_only(loss, trades, pnl) ==
    <<IF pnl < 0 THEN loss - pnl ELSE loss, IF pnl < 0 THEN trades + 1 ELSE trades>>

\* RiskManager.register_trade: the counters <<_daily_loss, _daily_trades>> after the call
register_trade(loss, trades, pnl) ==
    <<IF pnl < 0 THEN loss + (IF pnl < 0 THEN -pnl ELSE pnl) ELSE loss, trades + 1>>

\* RiskManager.reset_day: the counters after the call
reset_day(loss, trades) == <<0, 0>>

---------------------------------------------------------------------------
\* The RiskManager driven through its public methods by an arbitrary caller.

Entries  == {10}             \* entry prices, in ticks
Stops    == {8, 10, 11}      \* stop prices, in ticks: below, at and above the entry
PipSizes == {0, 1, 2}        \* pip_size arguments, in ticks
LotSizes == {0, 3, 30}       \* lot_size arguments

NoCall == [op |-> "none", args |-> <<>>, res |-> Ret("None"), pre |-> <<0, 0>>]

Call(op, args, res) ==
    [op |-> op, args |-> args, res |-> res, pre |-> <<daily_loss, daily_trades>>]

\* RiskManager.__init__
InitRiskManager ==
    /\ cfg \in RiskConfigs
    /\ daily_loss = 0
    /\ daily_trades = 0
    /\ call = NoCall
    /\ regCalls = 0
    /\ lossSum = 0

CanTradeCall ==
    /\ call' = Call("can_trade", <<>>, can_trade(daily_loss, daily_trades, cfg))
    /\ UNCHANGED <<riskVars, regCalls, lossSum, confVars, mainVars, schedVars, notifVars, jobVars>>

PositionSizeCall ==
    \E entry \in Entries, stop \in Stops, pip_size \in PipSizes, lot_size \in LotSizes :
        /\ call' = Call("position_size", <<entry, stop, pip_size, lot_size>>,
                        position_size(cfg, entry, stop, pip_size, lot_size))
        /\ UNCHANGED <<riskVars, regCalls, lossSum, confVars, mainVars, schedVars, notifVars, jobVars>>

RegisterTradeCall ==
    \E pnl \in (-MaxPnl)..MaxPnl :
        /\ regCalls < MaxCalls
        /\ LET after == register_trade(daily_loss, daily_trades, pnl)
           IN  /\ daily_loss' = after[1]
               /\ daily_trades' = after[2]
        /\ call' = Call("register_trade", <<pnl>>, Ret("None"))
        /\ regCalls' = regCalls + 1
        /\ lossSum' = lossSum + (IF pnl < 0 THEN -pnl ELSE 0)
        /\ UNCHANGED <<cfg, confVars, mainVars, schedVars, notifVars, jobVars>>

ResetDayCall ==
    /\ LET after == reset_day(daily_loss, daily_trades)
       IN  /\ daily_loss' = after[1]
           /\ daily_trades' = after[2]
    /\ call' = Call("reset_day", <<>>, Ret("None"))
    /\ regCalls' = 0
    /\ lossSum' = 0
    /\ UNCHANGED <<cfg, confVars, mainVars, schedVars, notifVars, jobVars>>

---------------------------------------------------------------------------
\* utils.py

\* within_session without the branch for a window that wraps midnight
within_session_no_wrap(hour, start_hour, end_hour) ==
    start_hour <= hour /\ hour < end_hour

\* within_session(now_utc, start_hour, end_hour), with hour = now_utc.hour
within_session(hour, start_hour, end_hour) ==
    IF start_hour <= end_hour
    THEN start_hour <= hour /\ hour < end_hour
    ELSE hour >= start_hour \/ hour < end_hour

---------------------------------------------------------------------------
\* notifications.py: TelegramNotifier.  A message text is the sequence of its
\* whitespace-separated words; str.lower is defined on the words used here.

MaxRequests == 2    \* handle_trade_alert calls explored
MaxUpdates  == 2    \* updates the user sends to the bot

Timeouts   == {0, 2}    \* confirmation_timeout, in clock units
PollTimes  == {0, 1}    \* clock units a getUpdates call takes
SleepTimes == {1, 2}    \* clock units time.sleep(poll_interval) takes, poll_interval > 0
Symbols    == {"EURUSD"}

\* the texts the user sends in the notifier's specification
Replies == {<<>>, <<"YES">>, <<"no", "EURUSD">>, <<"buy", "GBPUSD">>}

\* str.lower
Lower(w) ==
    CASE w = "YES"    -> "yes"
      [] w = "Yes"    -> "yes"
      [] w = "No"     -> "no"
      [] w = "BUY"    -> "buy"
      [] w = "EURUSD" -> "eurusd"
      [] w = "EurUsd" -> "eurusd"
      [] w = "GBPUSD" -> "gbpusd"
      [] OTHER        -> w

\* _consume_updates, lines 153-159: text.strip().lower().split()
Tokens(text) == [i \in 1..Len(text) |-> Lower(text[i])]

\* _parse_decision that reads a lone command like a command with its symbol
parse_decision_symbol_optional(tokens, symbol_token) ==
    IF Len(tokens) >= 2 /\ tokens[2] # symbol_token THEN "None"
    ELSE IF tokens[1] \in {"yes", "y", "buy", "long", "+"} THEN "True"
    ELSE IF tokens[1] \in {"no", "n", "sell", "short", "-"} THEN "False"
    ELSE "None"

\* TelegramNotifier._parse_decision (tokens is not empty): "True", "False" or "None"
parse_decision(tokens, symbol_token) ==
    IF Len(tokens) = 1
    THEN LET command == tokens[1]
         IN  IF command \in {"yes", "y"} THEN "True"
             ELSE IF command \in {"no", "n"} THEN "False"
             ELSE "None"
    ELSE LET command == tokens[1]
             symbol  == tokens[2]
         IN  IF symbol # symbol_token THEN "None"
             ELSE IF command \in {"yes", "y", "buy", "long", "+"} THEN "True"
             ELSE IF command \in {"no", "n", "sell", "short", "-"} THEN "False"
             ELSE "None"

\* _consume_updates, lines 144-162: the decision one update yields, "None" if none
UpdateDecision(update, symbol_token) ==
    LET tokens == Tokens(update.text)
    IN  IF tokens = <<>> THEN "None" ELSE parse_decision(tokens, symbol_token)

\* getUpdates as the Telegram server answers it: the updates from the offset on
GetUpdates(offset) ==
    LET Wanted(u) == offset = <<>> \/ u.update_id >= offset[1]
    IN  SelectSeq(inbox, Wanted)

\* _consume_updates that asks for offset = _last_update_id, without the + 1
consume_updates_offset_not_advanced(ok, symbol_token) ==
    LET offset  == last_update_id
        results == IF ok THEN GetUpdates(offset) ELSE <<>>
        Decides(u) == UpdateDecision(u, symbol_token) # "None"
        deciding == SelectSeq(results, Decides)
    IN  [last      |-> IF results = <<>> THEN last_update_id
                       ELSE <<results[Len(results)].update_id>>,
         decisions |-> [i \in 1..Len(deciding) |-> UpdateDecision(deciding[i], symbol_token)]]

\* TelegramNotifier._consume_updates: the new _last_update_id and the decisions
\* in the order of the updates; a failed request yields no decision
consume_updates(ok, symbol_token) ==
    LET offset  == IF last_update_id = <<>> THEN <<>> ELSE <<last_update_id[1] + 1>>
        results == IF ok THEN GetUpdates(offset) ELSE <<>>
        Decides(u) == UpdateDecision(u, symbol_token) # "None"
        deciding == SelectSeq(results, Decides)
    IN  [last      |-> IF results = <<>> THEN last_update_id
                       ELSE <<results[Len(results)].update_id>>,
         decisions |-> [i \in 1..Len(deciding) |-> UpdateDecision(deciding[i], symbol_token)]]

\* TelegramNotifier.__init__, and no handle_trade_alert call running
InitNotifier ==
    /\ last_update_id = <<>>
    /\ inbox = <<>>
    /\ clock = 0
    /\ deadline = 0
    /\ npc = "idle"
    /\ expected_symbol = "none"
    /\ polls = 0
    /\ result = "pending"
    /\ send_failed = FALSE
    /\ alert_pre = <<<<>>, 0, 0>>
    /\ requests = 0

\* the user sends a message to the bot
UserReply ==
    /\ Len(inbox) < MaxUpdates
    /\ \E text \in Replies :
        inbox' = Append(inbox, [update_id |-> Len(inbox) + 1, text |-> text])
    /\ UNCHANGED <<riskVars, histVars, confVars, mainVars, jobVars, schedVars,
                   require_confirmation, confirmation_timeout, last_update_id, clock,
                   deadline, npc, expected_symbol, polls, result, send_failed, alert_pre,
                   requests>>

\* job, lines 205-214: an instrument passed the risk gate and job calls
\* handle_trade_alert
AlertCall ==
    /\ pc = "idle"
    /\ npc = "idle"
    /\ requests < MaxRequests
    /\ pc' = "alert"
    /\ npc' = "send"
    /\ requests' = requests + 1
    /\ \E symbol \in Symbols : expected_symbol' = symbol
    /\ polls' = 0
    /\ result' = "pending"
    /\ send_failed' = FALSE
    /\ alert_pre' = <<last_update_id, clock, Len(inbox)>>
    /\ steps' = <<>>
    /\ UNCHANGED <<riskVars, histVars, confVars, mainVars, schedVars, idx, ticks, in_session, orders,
                   cur, jobExc, require_confirmation, confirmation_timeout, last_update_id,
                   inbox, clock, deadline>>

\* AlertSend that waits for a confirmation also in auto-approve mode
AlertSend_always_awaits ==
    /\ npc = "send"
    /\ \E send_ok \in BOOLEAN : send_failed' = ~send_ok
    /\ deadline' = clock + confirmation_timeout
    /\ npc' = "loop"
    /\ UNCHANGED <<riskVars, histVars, confVars, mainVars, jobVars, schedVars, require_confirmation,
                   confirmation_timeout, last_update_id, inbox, clock, expected_symbol,
                   polls, result, alert_pre, requests>>

\* handle_trade_alert, lines 57-89, and _await_confirmation, line 116:
\* send_message swallows a failed request
AlertSend ==
    /\ npc = "send"
    /\ \E send_ok \in BOOLEAN : send_failed' = ~send_ok
    /\ IF ~require_confirmation
       THEN /\ result' = "True"
            /\ npc' = "return"
            /\ UNCHANGED deadline
       ELSE /\ deadline' = clock + confirmation_timeout
            /\ npc' = "loop"
            /\ UNCHANGED result
    /\ UNCHANGED <<riskVars, histVars, confVars, mainVars, jobVars, schedVars, require_confirmation,
                   confirmation_timeout, last_update_id, inbox, clock, expected_symbol,
                   polls, alert_pre, requests>>

\* _await_confirmation, line 119: the loop condition
AwaitCheck ==
    /\ npc = "loop"
    /\ npc' = IF clock < deadline THEN "poll" ELSE "timeout"
    /\ UNCHANGED <<riskVars, histVars, confVars, mainVars, jobVars, schedVars, require_confirmation,
                   confirmation_timeout, last_update_id, inbox, clock, deadline,
                   expected_symbol, polls, result, send_failed, alert_pre, requests>>

\* _await_confirmation, lines 120-121: one _consume_updates call; the first
\* decision it yields is returned
AwaitPoll ==
    /\ npc = "poll"
    /\ \E ok \in BOOLEAN, t \in PollTimes :
        LET c == consume_updates(ok, Lower(expected_symbol))
        IN  /\ last_update_id' = c.last
            /\ clock' = clock + t
            /\ IF c.decisions # <<>>
               THEN result' = c.decisions[1] /\ npc' = "return"
               ELSE UNCHANGED result /\ npc' = "sleep"
    /\ polls' = polls + 1
    /\ UNCHANGED <<riskVars, histVars, confVars, mainVars, jobVars, schedVars, require_confirmation,
                   confirmation_timeout, inbox, deadline, expected_symbol, send_failed,
                   alert_pre, requests>>

\* _await_confirmation, line 122: time.sleep(poll_interval)
AwaitSleep ==
    /\ npc = "sleep"
    /\ \E t \in SleepTimes : clock' = clock + t
    /\ npc' = "loop"
    /\ UNCHANGED <<riskVars, histVars, confVars, mainVars, jobVars, schedVars, require_confirmation,
                   confirmation_timeout, last_update_id, inbox, deadline, expected_symbol,
                   polls, result, send_failed, alert_pre, requests>>

\* AwaitTimeout that approves the trade when the deadline has passed
AwaitTimeout_approves ==
    /\ npc = "timeout"
    /\ result' = "True"
    /\ npc' = "return"
    /\ UNCHANGED <<riskVars, histVars, confVars, mainVars, jobVars, schedVars, require_confirmation,
                   confirmation_timeout, last_update_id, inbox, clock, deadline,
                   expected_symbol, polls, send_failed, alert_pre, requests>>

\* _await_confirmation, lines 124-125: the timed-out notice and "return False"
AwaitTimeout ==
    /\ npc = "timeout"
    /\ result' = "False"
    /\ npc' = "return"
    /\ UNCHANGED <<riskVars, histVars, confVars, mainVars, jobVars, schedVars, require_confirmation,
                   confirmation_timeout, last_update_id, inbox, clock, deadline,
                   expected_symbol, polls, send_failed, alert_pre, requests>>

\* job, lines 215-222: "continue" unless approved, else place_market
AlertReturn ==
    /\ pc = "alert"
    /\ npc = "return"
    /\ npc' = "idle"
    /\ pc' = "idle"
    /\ IF result = "True"
       THEN \E place_ok \in BOOLEAN :
               /\ steps' = <<"handle_trade_alert",
                             IF place_ok THEN "place_market" ELSE "place_market_failed">>
               /\ orders' = IF place_ok THEN orders + 1 ELSE orders
       ELSE /\ steps' = <<"handle_trade_alert_rejected">>
            /\ UNCHANGED orders
    /\ UNCHANGED <<riskVars, histVars, confVars, mainVars, schedVars, idx, ticks, in_session, cur,
                   jobExc, require_confirmation, confirmation_timeout, last_update_id,
                   inbox, clock, deadline, expected_symbol, polls, result, send_failed,
                   alert_pre, requests>>

---------------------------------------------------------------------------
\* runner.py: the trading mode and the names of the credential variables.
\* An optional string is <<>> for None and <<s>> for the string s.

SUPPORTED_MODES == {"DEMO", "LIVE"}

\* str.strip().upper() on the mode spellings and section keys used here
StripUpper(w) ==
    CASE w = "live"   -> "LIVE"
      [] w = " Live " -> "LIVE"
      [] w = "demo"   -> "DEMO"
      [] w = " demo " -> "DEMO"
      [] w = "paper"  -> "PAPER"
      [] w = "lvie"   -> "LVIE"
      [] w = "  "     -> ""
      [] OTHER        -> w

_normalise_mode(mode) ==
    IF mode = <<>> THEN <<>>
    ELSE LET value == StripUpper(mode[1])
         IN  IF value = "" THEN <<>> ELSE <<value>>

\* _resolve_mode: the first candidate that is a supported mode, else DEMO
_resolve_mode(cli_mode, cfg_mode) ==
    LET cli == _normalise_mode(cli_mode)
        cf  == _normalise_mode(cfg_mode)
    IN  IF cli # <<>> /\ cli[1] \in SUPPORTED_MODES THEN cli[1]
        ELSE IF cf # <<>> /\ cf[1] \in SUPPORTED_MODES THEN cf[1]
        ELSE "DEMO"

CredentialNames == {"api_key", "username", "password", "account_type", "account_id"}

\* A value of a configuration mapping: <<>> when the key is missing, <<"">>
\* for the empty string, <<origin, name>> for the name of a variable.
Truthy(v) == v # <<>> /\ v # <<"">>

\* the mappings a section, or the top level, may hold for the five *_env keys
EnvMappings(origin) ==
    {[n \in CredentialNames |-> <<>>],
     [n \in CredentialNames |-> <<origin, n>>],
     [n \in CredentialNames |-> IF n \in {"api_key", "username"} THEN <<origin, n>>
                                ELSE IF n = "password" THEN <<"">> ELSE <<>>]}

\* the entries of ig_cfg["credentials"]: a key and a mapping, or a key and a
\* value that is no mapping
Sections(key) ==
    [key : {key}, is_dict : {TRUE}, vals : EnvMappings(key)]
    \cup {[key |-> key, is_dict |-> FALSE, vals |-> [n \in CredentialNames |-> <<>>]]}

LiveSections == Sections("LIVE") \cup Sections(" Live ")
DemoSections == Sections("DEMO")

Credentials ==
    {<<>>}
    \cup {<<e>> : e \in LiveSections \cup DemoSections}
    \cup {<<l, d>> : l \in LiveSections, d \in DemoSections}
    \cup {<<d, l>> : d \in DemoSections, l \in LiveSections}

IgConfigs == [top : EnvMappings("top"), credentials : Credentials]

\* lines 47-52: the index of the first entry whose key is the mode, 0 if none
FirstModeSection(credentials_cfg, mode) ==
    LET hits == {i \in 1..Len(credentials_cfg) : StripUpper(credentials_cfg[i].key) = mode}
    IN  IF hits = {} THEN 0 ELSE CHOOSE i \in hits : \A j \in hits : i <= j

\* _resolve_ig_env_names that takes the first section whatever its key
_resolve_ig_env_names_any_section(ig_cfg, mode) ==
    LET credentials_cfg == ig_cfg.credentials
        mode_cfg == IF credentials_cfg # <<>> /\ credentials_cfg[1].is_dict
                    THEN credentials_cfg[1].vals
                    ELSE [n \in CredentialNames |-> <<>>]
    IN  [n \in CredentialNames |->
            IF Truthy(mode_cfg[n]) THEN mode_cfg[n]
            ELSE IF Truthy(ig_cfg.top[n]) THEN ig_cfg.top[n]
            ELSE <<>>]

\* _resolve_ig_env_names: for each name, _pick(name)
_resolve_ig_env_names(ig_cfg, mode) ==
    LET credentials_cfg == ig_cfg.credentials
        first == FirstModeSection(credentials_cfg, mode)
        mode_cfg == IF first # 0 /\ credentials_cfg[first].is_dict
                    THEN credentials_cfg[first].vals
                    ELSE [n \in CredentialNames |-> <<>>]
    IN  [n \in CredentialNames |->
            IF Truthy(mode_cfg[n]) THEN mode_cfg[n]
            ELSE IF Truthy(ig_cfg.top[n]) THEN ig_cfg.top[n]
            ELSE <<>>]

---------------------------------------------------------------------------
\* runner.py: job, invoked by the scheduler every run_interval_seconds.  One
\* action per stretch of job between two calls of a collaborator.

Hours    == {3, 10, 23}     \* now_utc().hour at a tick
Sessions == {<<22, 6>>}     \* a session window wrapping midnight
Closes   == {10, 13}        \* close of the latest bar, in ticks

\* Instrument descriptors: a usual one, one whose stop_distance_pips is below a
\* pip and whose lot exceeds the risk budget, one whose pip_size is 0, and one
\* whose pip_size is negative (position_size then returns 0).
InstKinds ==
    {[pip_size |-> 1,  lot_size |-> 3,  stop_distance_pips |-> 2],
     [pip_size |-> 2,  lot_size |-> 30, stop_distance_pips |-> 0],
     [pip_size |-> 0,  lot_size |-> 1,  stop_distance_pips |-> 2],
     [pip_size |-> -1, lot_size |-> 3,  stop_distance_pips |-> 2]}

\* The configurations main may build the RiskManager of a run from.
JobRiskConfigs == {c \in RiskConfigs : c.risk_per_trade_pct = 50 /\ c.max_daily_loss_pct = 3}

NoCur == [side |-> "none", close |-> 0, sl |-> 0, tp |-> 0, size |-> 0,
          attempts |-> 0, failures |-> 0]

\* risk_gate with the "size <= 0" test of line 199 left out
risk_gate_ignores_size(inst, side, price, loss, trades) ==
    LET pip_size  == inst.pip_size
        lot_size  == inst.lot_size
        rr        == cfg.rr_ratio
        stop_distance_pips == Max(inst.stop_distance_pips, 1)
        sl_distance == stop_distance_pips * pip_size
        sl        == IF side = "BUY" THEN price - sl_distance ELSE price + sl_distance
        tp        == IF side = "BUY" THEN price + sl_distance * rr
                                     ELSE price - sl_distance * rr
        ct        == can_trade(loss, trades, cfg)
        ps        == position_size(cfg, price, sl, pip_size, lot_size)
        Gate(st, exc, go, size) ==
            [steps |-> st, exc |-> exc, go |-> go, sl |-> sl, tp |-> tp, size |-> size]
    IN  IF ct.exc # "none" THEN Gate(<<"can_trade">>, ct.exc, FALSE, 0)
        ELSE IF ~ct.val THEN Gate(<<"can_trade">>, "none", FALSE, 0)
        ELSE IF ps.exc # "none" THEN Gate(<<"can_trade", "position_size">>, ps.exc, FALSE, 0)
        ELSE Gate(<<"can_trade", "position_size">>, "none", TRUE, ps.val)

\* risk_gate with the stop and the target of BUY and SELL exchanged
risk_gate_sides_swapped(inst, side, price, loss, trades) ==
    LET pip_size  == inst.pip_size
        lot_size  == inst.lot_size
        rr        == cfg.rr_ratio
        stop_distance_pips == Max(inst.stop_distance_pips, 1)
        sl_distance == stop_distance_pips * pip_size
        sl        == IF side = "BUY" THEN price + sl_distance ELSE price - sl_distance
        tp        == IF side = "BUY" THEN price - sl_distance * rr
                                     ELSE price + sl_distance * rr
        ct        == can_trade(loss, trades, cfg)
        ps        == position_size(cfg, price, sl, pip_size, lot_size)
        Gate(st, exc, go, size) ==
            [steps |-> st, exc |-> exc, go |-> go, sl |-> sl, tp |-> tp, size |-> size]
    IN  IF ct.exc # "none" THEN Gate(<<"can_trade">>, ct.exc, FALSE, 0)
        ELSE IF ~ct.val THEN Gate(<<"can_trade">>, "none", FALSE, 0)
        ELSE IF ps.exc # "none" THEN Gate(<<"can_trade", "position_size">>, ps.exc, FALSE, 0)
        ELSE IF ps.val <= 0 THEN Gate(<<"can_trade", "position_size">>, "none", FALSE, ps.val)
        ELSE Gate(<<"can_trade", "position_size">>, "none", TRUE, ps.val)

\* risk_gate whose can_trade is asked with a trade count of 0, as if no
\* register_trade of an earlier instrument had been seen
risk_gate_unseen_trades(inst, side, price, loss, trades) ==
    LET pip_size  == inst.pip_size
        lot_size  == inst.lot_size
        rr        == cfg.rr_ratio
        stop_distance_pips == Max(inst.stop_distance_pips, 1)
        sl_distance == stop_distance_pips * pip_size
        sl        == IF side = "BUY" THEN price - sl_distance ELSE price + sl_distance
        tp        == IF side = "BUY" THEN price + sl_distance * rr
                                     ELSE price - sl_distance * rr
        ct        == can_trade(loss, 0, cfg)
        ps        == position_size(cfg, price, sl, pip_size, lot_size)
        Gate(st, exc, go, size) ==
            [steps |-> st, exc |-> exc, go |-> go, sl |-> sl, tp |-> tp, size |-> size]
    IN  IF ct.exc # "none" THEN Gate(<<"can_trade">>, ct.exc, FALSE, 0)
        ELSE IF ~ct.val THEN Gate(<<"can_trade">>, "none", FALSE, 0)
        ELSE IF ps.exc # "none" THEN Gate(<<"can_trade", "position_size">>, ps.exc, FALSE, 0)
        ELSE IF ps.val <= 0 THEN Gate(<<"can_trade", "position_size">>, "none", FALSE, ps.val)
        ELSE Gate(<<"can_trade", "position_size">>, "none", TRUE, ps.val)

\* job, lines 180-200: stop and target from the latest close, then the risk gate.
\* go: the instrument passed the gate; exc: the exception that leaves job.
risk_gate(inst, side, price, loss, trades) ==
    LET pip_size  == inst.pip_size
        lot_size  == inst.lot_size
        rr        == cfg.rr_ratio
        stop_distance_pips == Max(inst.stop_distance_pips, 1)
        sl_distance == stop_distance_pips * pip_size
        sl        == IF side = "BUY" THEN price - sl_distance ELSE price + sl_distance
        tp        == IF side = "BUY" THEN price + sl_distance * rr
                                     ELSE price - sl_distance * rr
        ct        == can_trade(loss, trades, cfg)
        ps        == position_size(cfg, price, sl, pip_size, lot_size)
        Gate(st, exc, go, size) ==
            [steps |-> st, exc |-> exc, go |-> go, sl |-> sl, tp |-> tp, size |-> size]
    IN  IF ct.exc # "none" THEN Gate(<<"can_trade">>, ct.exc, FALSE, 0)
        ELSE IF ~ct.val THEN Gate(<<"can_trade">>, "none", FALSE, 0)
        ELSE IF ps.exc # "none" THEN Gate(<<"can_trade", "position_size">>, ps.exc, FALSE, 0)
        ELSE IF ps.val <= 0 THEN Gate(<<"can_trade", "position_size">>, "none", FALSE, ps.val)
        ELSE Gate(<<"can_trade", "position_size">>, "none", TRUE, ps.val)

\* the strategy names build_strategy knows
KnownStrategies == {"sma_ema_crossover", "rsi_reversal", "alligator", "fib_elliott"}

\* build_strategy: a strategy object of the named class, or ValueError
build_strategy(name) ==
    IF name \in KnownStrategies THEN Ret(name) ELSE Raise("ValueError", name)

\* main, lines 339-370: main has built the strategies, started the scheduler
\* and waits in its loop
InitMainRunning ==
    /\ main_pc = "loop"
    /\ RUNNING = TRUE
    /\ scheduler_up = TRUE
    /\ logged_in = TRUE
    /\ strategy_name = IF has_strategy THEN "sma_ema_crossover" ELSE ""
    /\ strategies = IF has_strategy THEN 1..NumInst ELSE {}

\* main, lines 348-358: the scheduler has started no invocation yet
InitSched ==
    /\ invocations = 0
    /\ extra = 0
    /\ skipped = 0

\* main, lines 308-337, and job: the objects main has built, no tick yet
InitJob ==
    /\ InitRiskManager
    /\ cfg \in JobRiskConfigs
    /\ session \in Sessions
    /\ instruments \in [1..NumInst -> InstKinds]
    /\ has_strategy \in BOOLEAN
    /\ has_sink \in BOOLEAN
    /\ has_notifier \in BOOLEAN
    /\ pc = "idle"
    /\ idx = 0
    /\ ticks = 0
    /\ in_session = FALSE
    /\ orders = 0
    /\ steps = <<>>
    /\ cur = NoCur
    /\ jobExc = "none"
    /\ InitSched
    /\ require_confirmation = TRUE
    /\ confirmation_timeout = 0
    /\ InitNotifier

\* main, lines 308-358: the state when the scheduler is started
Init == InitJob /\ InitMainRunning

\* "continue", or the end of the loop body: the next instrument, or job returns
Continue ==
    /\ idx' = IF idx < NumInst THEN idx + 1 ELSE 0
    /\ pc' = IF idx < NumInst THEN "fetch" ELSE "idle"
    /\ jobExc' = "none"

\* an exception leaves job; the scheduler logs it and waits for the next tick
Abort(exc) ==
    /\ idx' = 0
    /\ pc' = "idle"
    /\ jobExc' = exc

\* job, lines 137-143: a tick outside the session window returns at once
JobSkipTick ==
    /\ scheduler_up
    /\ pc = "idle"
    /\ ticks < MaxTicks
    /\ \E h \in Hours :
        /\ ~within_session(h, session[1], session[2])
        /\ in_session' = within_session(h, session[1], session[2])
    /\ ticks' = ticks + 1
    /\ invocations' = invocations + 1
    /\ jobExc' = "none"
    /\ steps' = <<>>
    /\ cur' = NoCur
    /\ UNCHANGED <<riskVars, histVars, confVars, mainVars, extra, skipped, notifVars, pc, idx, orders>>

\* JobStartTick with the session test of line 142 left out
JobStartTick_any_hour ==
    /\ scheduler_up
    /\ pc = "idle"
    /\ ticks < MaxTicks
    /\ \E h \in Hours :
        in_session' = within_session(h, session[1], session[2])
    /\ ticks' = ticks + 1
    /\ invocations' = invocations + 1
    /\ pc' = "fetch"
    /\ idx' = 1
    /\ jobExc' = "none"
    /\ steps' = <<>>
    /\ cur' = NoCur
    /\ UNCHANGED <<riskVars, histVars, confVars, mainVars, extra, skipped, notifVars, orders>>

\* JobStartTick that calls reset_day at the start of every tick
JobStartTick_resets_day ==
    /\ scheduler_up
    /\ pc = "idle"
    /\ ticks < MaxTicks
    /\ \E h \in Hours :
        /\ within_session(h, session[1], session[2])
        /\ in_session' = within_session(h, session[1], session[2])
    /\ ticks' = ticks + 1
    /\ invocations' = invocations + 1
    /\ pc' = "fetch"
    /\ idx' = 1
    /\ jobExc' = "none"
    /\ steps' = <<>>
    /\ cur' = NoCur
    /\ LET after == reset_day(daily_loss, daily_trades)
       IN  /\ daily_loss' = after[1]
           /\ daily_trades' = after[2]
    /\ UNCHANGED <<cfg, histVars, confVars, mainVars, extra, skipped, notifVars, orders>>

\* job, lines 137-150: a tick inside the session window enters the loop
JobStartTick ==
    /\ scheduler_up
    /\ pc = "idle"
    /\ ticks < MaxTicks
    /\ \E h \in Hours :
        /\ within_session(h, session[1], session[2])
        /\ in_session' = within_session(h, session[1], session[2])
    /\ ticks' = ticks + 1
    /\ invocations' = invocations + 1
    /\ pc' = "fetch"
    /\ idx' = 1
    /\ jobExc' = "none"
    /\ steps' = <<>>
    /\ cur' = NoCur
    /\ UNCHANGED <<riskVars, histVars, confVars, mainVars, extra, skipped, notifVars, orders>>

\* job, lines 151-174: the strategy of the instrument, its bars, the candle write
JobFetch ==
    /\ pc = "fetch"
    /\ IF idx \notin strategies /\ ~has_strategy
       THEN steps' = <<>> /\ cur' = NoCur /\ Continue /\ UNCHANGED strategies
       ELSE IF idx \notin strategies /\ build_strategy(strategy_name).exc # "none"
       THEN /\ steps' = <<>> /\ cur' = NoCur /\ UNCHANGED strategies
            /\ Abort(build_strategy(strategy_name).exc)
       ELSE \E df_empty \in BOOLEAN, candle_ok \in BOOLEAN, close \in Closes :
                /\ steps' = IF has_sink /\ ~df_empty
                            THEN <<"fetch_historical",
                                   IF candle_ok THEN "write_candles" ELSE "write_candles_failed">>
                            ELSE <<"fetch_historical">>
                /\ strategies' = strategies \cup {idx}
                /\ IF df_empty
                   THEN cur' = NoCur /\ Continue
                   ELSE /\ cur' = [NoCur EXCEPT !.close = close]
                        /\ pc' = "generate"
                        /\ UNCHANGED <<idx, jobExc>>
    /\ UNCHANGED <<riskVars, histVars, confVars, schedVars, notifVars, ticks, in_session, orders,
                   main_pc, RUNNING, scheduler_up, logged_in, strategy_name>>

\* job, lines 176-178: the strategy's signal
JobGenerate ==
    /\ pc = "generate"
    /\ \E side \in {"BUY", "SELL", "FLAT"} :
        /\ steps' = Append(steps, "generate")
        /\ cur' = [cur EXCEPT !.side = side]
        /\ IF side = "FLAT"
           THEN Continue
           ELSE pc' = "risk" /\ UNCHANGED <<idx, jobExc>>
    /\ UNCHANGED <<riskVars, histVars, confVars, mainVars, schedVars, notifVars, ticks, in_session, orders>>

\* job, lines 180-203: stop, target, can_trade, position_size
JobRisk ==
    /\ pc = "risk"
    /\ LET g == risk_gate(instruments[idx], cur.side, cur.close, daily_loss, daily_trades)
       IN  /\ steps' = steps \o g.steps
           /\ cur' = [cur EXCEPT !.sl = g.sl, !.tp = g.tp, !.size = g.size]
           /\ IF g.exc # "none" THEN Abort(g.exc)
              ELSE IF ~g.go THEN Continue
              ELSE /\ pc' = IF has_notifier THEN "alert" ELSE "place"
                   /\ UNCHANGED <<idx, jobExc>>
    /\ UNCHANGED <<riskVars, histVars, confVars, mainVars, schedVars, notifVars, ticks, in_session, orders>>

\* job, lines 205-216: the trade alert and, if required, its confirmation
JobAlert ==
    /\ pc = "alert"
    /\ \E approved \in BOOLEAN :
        /\ steps' = Append(steps, IF approved THEN "handle_trade_alert"
                                               ELSE "handle_trade_alert_rejected")
        /\ IF approved
           THEN pc' = "place" /\ UNCHANGED <<idx, jobExc>>
           ELSE Continue
    /\ UNCHANGED <<riskVars, histVars, confVars, mainVars, schedVars, notifVars, ticks, in_session, orders, cur>>

StopAfterAttempt == 3   \* @retry(stop=stop_after_attempt(3), ...)

\* what the broker does with the successive create_open_position calls of one
\* place_market call: TRUE returns a response, FALSE raises
BrokerOutcomes == [1..StopAfterAttempt + 1 -> BOOLEAN]

\* place_market whose decorator stops after one attempt more
place_market_one_more_attempt(outcomes) ==
    LET firstOk == {n \in 1..StopAfterAttempt + 1 : outcomes[n]}
    IN  IF firstOk = {}
        THEN [ok |-> FALSE, attempts |-> StopAfterAttempt + 1, failures |-> StopAfterAttempt + 1]
        ELSE LET n == CHOOSE k \in firstOk : \A j \in firstOk : k <= j
             IN  [ok |-> TRUE, attempts |-> n, failures |-> n - 1]

\* Executor.place_market, attempt n of the retry loop: a response is returned
\* at once, an exception is retried until stop_after_attempt(3) says stop
RECURSIVE place_market_attempt(_, _, _)
place_market_attempt(outcomes, n, failures) ==
    IF outcomes[n] THEN [ok |-> TRUE, attempts |-> n, failures |-> failures]
    ELSE IF n >= StopAfterAttempt THEN [ok |-> FALSE, attempts |-> n, failures |-> failures + 1]
    ELSE place_market_attempt(outcomes, n + 1, failures + 1)

\* Executor.place_market under @retry: ok is FALSE when RetryError is raised
place_market(outcomes) == place_market_attempt(outcomes, 1, 0)

\* JobPlace without the try/except of lines 218-222: the exception leaves job
JobPlace_exception_propagates ==
    /\ pc = "place"
    /\ \E outcomes \in BrokerOutcomes :
        LET r == place_market(outcomes)
        IN  /\ cur' = [cur EXCEPT !.attempts = r.attempts, !.failures = r.failures]
            /\ IF r.ok
               THEN /\ steps' = Append(steps, "place_market")
                    /\ orders' = orders + 1
                    /\ pc' = "record"
                    /\ UNCHANGED <<idx, jobExc>>
               ELSE /\ steps' = Append(steps, "place_market_failed")
                    /\ orders' = orders
                    /\ Abort("Exception")
    /\ UNCHANGED <<riskVars, histVars, confVars, mainVars, schedVars, notifVars, ticks, in_session>>

\* JobPlace whose except clause lacks the "continue" of line 222
JobPlace_failure_falls_through ==
    /\ pc = "place"
    /\ \E outcomes \in BrokerOutcomes :
        LET r == place_market(outcomes)
        IN  /\ cur' = [cur EXCEPT !.attempts = r.attempts, !.failures = r.failures]
            /\ steps' = Append(steps, IF r.ok THEN "place_market" ELSE "place_market_failed")
            /\ orders' = IF r.ok THEN orders + 1 ELSE orders
            /\ pc' = "record"
            /\ UNCHANGED <<idx, jobExc>>
    /\ UNCHANGED <<riskVars, histVars, confVars, mainVars, schedVars, notifVars, ticks, in_session>>

\* job, lines 218-222: the order; place_market returns or raises
JobPlace ==
    /\ pc = "place"
    /\ \E outcomes \in BrokerOutcomes :
        LET r == place_market(outcomes)
        IN  /\ cur' = [cur EXCEPT !.attempts = r.attempts, !.failures = r.failures]
            /\ IF r.ok
               THEN /\ steps' = Append(steps, "place_market")
                    /\ orders' = orders + 1
                    /\ pc' = "record"
                    /\ UNCHANGED <<idx, jobExc>>
               ELSE /\ steps' = Append(steps, "place_market_failed")
                    /\ orders' = orders
                    /\ Continue
    /\ UNCHANGED <<riskVars, histVars, confVars, mainVars, schedVars, notifVars, ticks, in_session>>

\* JobRecord without the try/except of lines 227-240: a failed log_trade
\* skips the rest of the loop body
JobRecord_log_failure_skips ==
    /\ pc = "record"
    /\ \E log_ok \in BOOLEAN :
        LET failed == has_sink /\ ~log_ok
            after  == IF failed THEN <<daily_loss, daily_trades>>
                                ELSE register_trade(daily_loss, daily_trades, 0)
        IN  /\ steps' = steps
                   \o (IF has_sink THEN <<IF log_ok THEN "log_trade" ELSE "log_trade_failed">>
                                   ELSE <<>>)
                   \o (IF failed THEN <<>>
                       ELSE (IF has_notifier THEN <<"notify_execution">> ELSE <<>>)
                            \o <<"register_trade">>)
            /\ daily_loss' = after[1]
            /\ daily_trades' = after[2]
            /\ regCalls' = IF failed THEN regCalls ELSE regCalls + 1
    /\ Continue
    /\ UNCHANGED <<cfg, call, lossSum, confVars, mainVars, schedVars, notifVars, ticks, in_session, orders, cur>>

\* JobRecord that registers a realised loss of one account unit with the trade
JobRecord_registers_loss ==
    /\ pc = "record"
    /\ \E log_ok \in BOOLEAN :
        steps' = steps
                 \o (IF has_sink THEN <<IF log_ok THEN "log_trade" ELSE "log_trade_failed">>
                                 ELSE <<>>)
                 \o (IF has_notifier THEN <<"notify_execution">> ELSE <<>>)
                 \o <<"register_trade">>
    /\ LET after == register_trade(daily_loss, daily_trades, -1)
       IN  /\ daily_loss' = after[1]
           /\ daily_trades' = after[2]
    /\ regCalls' = regCalls + 1
    /\ Continue
    /\ UNCHANGED <<cfg, call, lossSum, confVars, mainVars, schedVars, notifVars, ticks, in_session, orders, cur>>

\* job, lines 224-252: the trade record, the execution notice, register_trade(0.0)
JobRecord ==
    /\ pc = "record"
    /\ \E log_ok \in BOOLEAN :
        steps' = steps
                 \o (IF has_sink THEN <<IF log_ok THEN "log_trade" ELSE "log_trade_failed">>
                                 ELSE <<>>)
                 \o (IF has_notifier THEN <<"notify_execution">> ELSE <<>>)
                 \o <<"register_trade">>
    /\ LET after == register_trade(daily_loss, daily_trades, 0)
       IN  /\ daily_loss' = after[1]
           /\ daily_trades' = after[2]
    /\ regCalls' = regCalls + 1
    /\ Continue
    /\ UNCHANGED <<cfg, call, lossSum, confVars, mainVars, schedVars, notifVars, ticks, in_session, orders, cur>>

Next ==
    \/ JobSkipTick
    \/ JobStartTick
    \/ JobFetch
    \/ JobGenerate
    \/ JobRisk
    \/ JobAlert
    \/ JobPlace
    \/ JobRecord

Spec == Init /\ [][Next]_vars

---------------------------------------------------------------------------
\* The RiskManager on its own: any sequence of calls of its four methods.

InitRisk ==
    /\ InitRiskManager
    /\ session = <<22, 6>>
    /\ instruments = [i \in 1..NumInst |-> [pip_size |-> 1, lot_size |-> 3, stop_distance_pips |-> 2]]
    /\ has_strategy = TRUE
    /\ has_sink = FALSE
    /\ has_notifier = FALSE
    /\ pc = "idle"
    /\ idx = 0
    /\ ticks = 0
    /\ in_session = FALSE
    /\ orders = 0
    /\ steps = <<>>
    /\ cur = NoCur
    /\ jobExc = "none"
    /\ InitSched
    /\ require_confirmation = TRUE
    /\ confirmation_timeout = 0
    /\ InitNotifier
    /\ InitMainRunning

NextRisk == CanTradeCall \/ PositionSizeCall \/ RegisterTradeCall \/ ResetDayCall

SpecRisk == InitRisk /\ [][NextRisk]_vars

---------------------------------------------------------------------------
\* The notifier on its own: job calls handle_trade_alert while the user sends
\* messages to the bot.

InitNotify ==
    /\ InitRiskManager
    /\ cfg = [balance |-> 100, risk_per_trade_pct |-> 1, rr_ratio |-> 2,
              max_daily_loss_pct |-> 3, max_daily_trades |-> MaxTradesCfg]
    /\ session = <<22, 6>>
    /\ instruments = [i \in 1..NumInst |-> [pip_size |-> 1, lot_size |-> 3, stop_distance_pips |-> 2]]
    /\ has_strategy = TRUE
    /\ has_sink = FALSE
    /\ has_notifier = TRUE
    /\ pc = "idle"
    /\ idx = 0
    /\ ticks = 0
    /\ in_session = FALSE
    /\ orders = 0
    /\ steps = <<>>
    /\ cur = NoCur
    /\ jobExc = "none"
    /\ InitSched
    /\ require_confirmation \in BOOLEAN
    /\ confirmation_timeout \in Timeouts
    /\ InitNotifier
    /\ InitMainRunning

\* the steps of the thread that runs handle_trade_alert
NotifierStep == AlertSend \/ AwaitCheck \/ AwaitPoll \/ AwaitSleep \/ AwaitTimeout

NextNotify ==
    \/ UserReply
    \/ AlertCall
    \/ AlertSend
    \/ AwaitCheck
    \/ AwaitPoll
    \/ AwaitSleep
    \/ AwaitTimeout
    \/ AlertReturn

SpecNotify == InitNotify /\ [][NextNotify]_vars

\* the thread that runs handle_trade_alert keeps running: a request is
\* answered or fails within its timeout, and time.sleep returns
SpecNotifyFair == SpecNotify /\ WF_vars(NotifierStep)

---------------------------------------------------------------------------
\* The pure functions on their own: within_session over every hour and every
\* window, and the decision read from a reply text.

MaxTokens == 2      \* words in a reply text

HoursOfDay   == 0..23       \* datetime.hour
SessionHours == 0..24       \* start_hour and end_hour of the configuration

Words == {"yes", "no", "y", "n", "buy", "sell", "long", "short", "+", "-",
          "YES", "BUY", "maybe", "eurusd", "EURUSD", "gbpusd"}

ReplyTexts == UNION {[1..n -> Words] : n \in 1..MaxTokens}

InstrumentSymbols == {"EURUSD", "GBPUSD"}

\* one call per run of the harness
WithinSessionCall ==
    /\ call = NoCall
    /\ \E hour \in HoursOfDay, start_hour \in SessionHours, end_hour \in SessionHours :
        call' = Call("within_session", <<hour, start_hour, end_hour>>,
                     Ret(within_session(hour, start_hour, end_hour)))
    /\ UNCHANGED <<riskVars, regCalls, lossSum, confVars, mainVars, jobVars, schedVars, notifVars>>

\* _await_confirmation, line 117, and _consume_updates, lines 153-160, on one
\* message text
ParseDecisionCall ==
    /\ call = NoCall
    /\ \E text \in ReplyTexts, symbol \in InstrumentSymbols :
        call' = Call("_parse_decision", <<text, symbol>>,
                     Ret(UpdateDecision([text |-> text], Lower(symbol))))
    /\ UNCHANGED <<riskVars, regCalls, lossSum, confVars, mainVars, jobVars, schedVars, notifVars>>

\* the modes given on the command line and in the configuration
RawModes == {<<>>, <<"">>, <<"  ">>, <<"live">>, <<" Live ">>, <<"LIVE">>, <<"demo">>,
             <<"DEMO">>, <<"paper">>, <<"lvie">>}

ResolveModeCall ==
    /\ call = NoCall
    /\ \E cli_mode \in RawModes, cfg_mode \in RawModes :
        call' = Call("_resolve_mode", <<cli_mode, cfg_mode>>,
                     Ret(_resolve_mode(cli_mode, cfg_mode)))
    /\ UNCHANGED <<riskVars, regCalls, lossSum, confVars, mainVars, jobVars, schedVars, notifVars>>

ResolveIgEnvNamesCall ==
    /\ call = NoCall
    /\ \E ig_cfg \in IgConfigs, mode \in SUPPORTED_MODES :
        call' = Call("_resolve_ig_env_names", <<ig_cfg, mode>>,
                     Ret(_resolve_ig_env_names(ig_cfg, mode)))
    /\ UNCHANGED <<riskVars, regCalls, lossSum, confVars, mainVars, jobVars, schedVars, notifVars>>

InitPure ==
    /\ InitNotify
    /\ require_confirmation = TRUE
    /\ confirmation_timeout = 0

NextPure ==
    \/ WithinSessionCall
    \/ ParseDecisionCall
    \/ ResolveModeCall
    \/ ResolveIgEnvNamesCall

SpecPure == InitPure /\ [][NextPure]_vars

---------------------------------------------------------------------------
\* The scheduler and job: ticks also fire while an invocation of job runs.

MaxInstances == 1   \* add_job(..., max_instances=1, coalesce=True)

\* invocations of job running now
Running == (IF pc = "idle" THEN 0 ELSE 1) + extra

\* a scheduler that starts a due run whatever is running
SchedOverlapTick_second_instance ==
    /\ scheduler_up
    /\ pc # "idle"
    /\ ticks < MaxTicks
    /\ ticks' = ticks + 1
    /\ extra' = extra + 1
    /\ invocations' = invocations + 1
    /\ UNCHANGED <<riskVars, histVars, confVars, mainVars, notifVars, pc, idx, in_session, orders,
                   steps, cur, jobExc, skipped>>

\* main, lines 350-357: a tick falls due while job is running.  With
\* max_instances instances running the scheduler drops the run: it starts no
\* invocation and keeps no run for later.
SchedOverlapTick ==
    /\ scheduler_up
    /\ pc # "idle"
    /\ ticks < MaxTicks
    /\ ticks' = ticks + 1
    /\ IF Running < MaxInstances
       THEN /\ extra' = extra + 1
            /\ invocations' = invocations + 1
            /\ UNCHANGED skipped
       ELSE /\ skipped' = skipped + 1
            /\ UNCHANGED <<extra, invocations>>
    /\ UNCHANGED <<riskVars, histVars, confVars, mainVars, notifVars, pc, idx, in_session, orders,
                   steps, cur, jobExc>>

InitSchedJob ==
    /\ Init
    /\ cfg.balance = 100
    /\ cfg.max_daily_trades = MaxTradesCfg
    /\ instruments = [i \in 1..NumInst |-> [pip_size |-> 1, lot_size |-> 3, stop_distance_pips |-> 2]]
    /\ has_strategy
    /\ has_notifier

NextSched ==
    \/ JobSkipTick
    \/ JobStartTick
    \/ JobFetch
    \/ JobGenerate
    \/ JobRisk
    \/ JobAlert
    \/ JobPlace
    \/ JobRecord
    \/ SchedOverlapTick

SpecSched == InitSchedJob /\ [][NextSched]_vars

---------------------------------------------------------------------------
\* strategies: the indicators and the five generate methods.  Prices are
\* integers, indicator values exact fractions, NaN is <<>>.

MaxBars == 5        \* bars of the price series given to zigzag_pivots

PriceLevels == {94, 97, 100, 103, 106}

\* pct arguments of zigzag_pivots, in percent
ZigzagPcts == {2, 5}

\* one pass of the loop of zigzag_pivots, lines 10-15, from bar i on
RECURSIVE zigzag_loop_no_direction(_, _, _, _, _)
zigzag_loop_no_direction(prices, pct, i, last_pivot_price, pivots) ==
    IF i > Len(prices) THEN pivots
    ELSE LET change100 == (prices[i] - last_pivot_price) * 100
         IN  IF change100 >= pct * last_pivot_price \/ change100 <= -pct * last_pivot_price
             THEN zigzag_loop_no_direction(prices, pct, i + 1, prices[i],
                                           [pivots EXCEPT ![i] = <<prices[i]>>])
             ELSE zigzag_loop_no_direction(prices, pct, i + 1, last_pivot_price, pivots)

\* zigzag_pivots that marks every move of pct percent, whatever the last direction
zigzag_pivots_no_direction(prices, pct) ==
    LET pivots == [i \in 1..Len(prices) |-> <<>>]
    IN  IF Len(prices) < 3 THEN pivots
        ELSE zigzag_loop_no_direction(prices, pct, 2, prices[1], pivots)

\* the loop of zigzag_pivots, lines 10-15, from bar i on (bars count from 1);
\* change >= pct is compared as (p - last) * 100 >= pct * last, last > 0
RECURSIVE zigzag_loop(_, _, _, _, _, _)
zigzag_loop(prices, pct, i, last_pivot_price, last_dir, pivots) ==
    IF i > Len(prices) THEN pivots
    ELSE LET change100 == (prices[i] - last_pivot_price) * 100
         IN  IF last_dir >= 0 /\ change100 >= pct * last_pivot_price
             THEN zigzag_loop(prices, pct, i + 1, prices[i], -1,
                              [pivots EXCEPT ![i] = <<prices[i]>>])
             ELSE IF last_dir <= 0 /\ change100 <= -pct * last_pivot_price
             THEN zigzag_loop(prices, pct, i + 1, prices[i], 1,
                              [pivots EXCEPT ![i] = <<prices[i]>>])
             ELSE zigzag_loop(prices, pct, i + 1, last_pivot_price, last_dir, pivots)

\* zigzag_pivots: the pivot price at each bar, <<>> where there is none
zigzag_pivots(prices, pct) ==
    LET pivots == [i \in 1..Len(prices) |-> <<>>]
    IN  IF Len(prices) < 3 THEN pivots
        ELSE zigzag_loop(prices, pct, 2, prices[1], 0, pivots)

\* Series.dropna().index: the bars that hold a pivot, in order
RECURSIVE dropna_index(_, _)
dropna_index(series, i) ==
    IF i > Len(series) THEN <<>>
    ELSE IF series[i] = <<>> THEN dropna_index(series, i + 1)
    ELSE <<i>> \o dropna_index(series, i + 1)

PriceSeries == UNION {[1..n -> PriceLevels] : n \in 0..MaxBars}

ZigzagPivotsCall ==
    /\ call = NoCall
    /\ \E prices \in PriceSeries, pct \in ZigzagPcts :
        call' = Call("zigzag_pivots", <<prices, pct>>, Ret(zigzag_pivots(prices, pct)))
    /\ UNCHANGED <<riskVars, regCalls, lossSum, confVars, mainVars, jobVars, schedVars, notifVars>>

\* alligator_ew_fib.py's copy of the loop of zigzag_pivots, lines 18-29; it
\* also keeps last_pivot_idx
RECURSIVE alligator_ew_fib_zigzag_loop(_, _, _, _, _, _, _)
alligator_ew_fib_zigzag_loop(prices, pct, i, last_pivot_idx, last_pivot_price, last_dir, pivots) ==
    IF i > Len(prices) THEN pivots
    ELSE LET change100 == (prices[i] - last_pivot_price) * 100
         IN  IF last_dir >= 0 /\ change100 >= pct * last_pivot_price
             THEN alligator_ew_fib_zigzag_loop(prices, pct, i + 1, i, prices[i], -1,
                                               [pivots EXCEPT ![i] = <<prices[i]>>])
             ELSE IF last_dir <= 0 /\ change100 <= -pct * last_pivot_price
             THEN alligator_ew_fib_zigzag_loop(prices, pct, i + 1, i, prices[i], 1,
                                               [pivots EXCEPT ![i] = <<prices[i]>>])
             ELSE alligator_ew_fib_zigzag_loop(prices, pct, i + 1, last_pivot_idx,
                                               last_pivot_price, last_dir, pivots)

\* alligator_ew_fib.py's copy of zigzag_pivots
alligator_ew_fib_zigzag_pivots(prices, pct) ==
    LET pivots == [i \in 1..Len(prices) |-> <<>>]
    IN  IF Len(prices) < 3 THEN pivots
        ELSE alligator_ew_fib_zigzag_loop(prices, pct, 2, 1, prices[1], 0, pivots)

AlligatorEWFibZigzagPivotsCall ==
    /\ call = NoCall
    /\ \E prices \in PriceSeries, pct \in ZigzagPcts :
        call' = Call("alligator_ew_fib.zigzag_pivots", <<prices, pct>>,
                     Ret(alligator_ew_fib_zigzag_pivots(prices, pct)))
    /\ UNCHANGED <<riskVars, regCalls, lossSum, confVars, mainVars, jobVars, schedVars, notifVars>>

MaxTail == 3        \* bars at the end of a bar series that leave the base price

RECURSIVE GCD(_, _)
GCD(a, b) == IF b = 0 THEN a ELSE GCD(b, a % b)

\* a fraction in lowest terms, as pandas' floats carry no denominator
RatNorm(a) ==
    LET g == GCD(IF a[1] < 0 THEN -a[1] ELSE a[1], a[2])
    IN  IF g = 0 THEN a ELSE <<a[1] \div g, a[2] \div g>>

RatLt(a, b) == a[1] * b[2] < b[1] * a[2]

\* x < y on floats that may be NaN: false when either is NaN
Lt(x, y) == x # <<>> /\ y # <<>> /\ RatLt(x[1], y[1])

\* Series.ewm(span=span, adjust=False).mean() from bar i on: y1 = x1,
\* y = (1 - alpha) * y_before + alpha * x with alpha = 2 / (span + 1)
RECURSIVE ewm_from(_, _, _, _)
ewm_from(series, span, i, done) ==
    IF i > Len(series) THEN done
    ELSE LET y == done[i - 1]
             x == series[i]
         IN  ewm_from(series, span, i + 1,
                      Append(done, RatNorm(<<(span - 1) * y[1] * x[2] + 2 * x[1] * y[2],
                                             (span + 1) * y[2] * x[2]>>)))

ewm_mean(series, span) ==
    IF series = <<>> THEN <<>> ELSE ewm_from(series, span, 2, <<series[1]>>)

RECURSIVE smoothed_ma_passes(_, _, _)
smoothed_ma_passes(ema, length, passes) ==
    IF passes <= 0 THEN ema
    ELSE smoothed_ma_passes(ewm_mean(ema, length), length, passes - 1)

\* smoothed_ma whose loop runs smooth times instead of smooth - 1 times
smoothed_ma_extra_pass(series, length, smooth) ==
    smoothed_ma_passes(ewm_mean(series, length), length, Max(0, smooth))

\* smoothed_ma: one EMA pass and max(0, smooth - 1) passes over the result
smoothed_ma(series, length, smooth) ==
    smoothed_ma_passes(ewm_mean(series, length), length, Max(0, smooth - 1))

\* alligator_ew_fib.py's copy of smoothed_ma, lines 5-10
alligator_ew_fib_smoothed_ma(series, length, smooth) ==
    smoothed_ma_passes(ewm_mean(series, length), length, Max(0, smooth - 1))

RECURSIVE SumOver(_, _, _)
SumOver(series, from, to) ==
    IF from > to THEN 0 ELSE series[from] + SumOver(series, from + 1, to)

\* Series.rolling(window).mean() at bar i: NaN until window bars are there
rolling_mean(series, window, i) ==
    IF i < window THEN <<>>
    ELSE <<RatNorm(<<SumOver(series, i - window + 1, i), window>>)>>

\* Series.rolling(window).max() and .min() at bar i
rolling_max(series, window, i) ==
    IF i < window THEN <<>>
    ELSE LET w == {series[j] : j \in (i - window + 1)..i}
         IN  <<Rat(CHOOSE x \in w : \A y \in w : y <= x)>>

rolling_min(series, window, i) ==
    IF i < window THEN <<>>
    ELSE LET w == {series[j] : j \in (i - window + 1)..i}
         IN  <<Rat(CHOOSE x \in w : \A y \in w : x <= y)>>

\* the bar series: a DataFrame as its price columns and the names of the
\* columns it holds
BasePrice == 100

FrameColumns == {"time", "open", "high", "low", "close", "volume"}

Tails == UNION {[1..n -> PriceLevels] : n \in 0..MaxTail}

Spreads == {0, 1}

\* n bars at the base price, the last of them replaced by the tail
Frame(n, tail, spread) ==
    LET close == [i \in 1..n |-> IF i <= n - Len(tail) THEN BasePrice
                                 ELSE tail[i - (n - Len(tail))]]
    IN  [close |-> close,
         high  |-> [i \in 1..n |-> close[i] + spread],
         low   |-> [i \in 1..n |-> close[i] - spread],
         columns |-> FrameColumns]

\* the lengths tried around a minimum lookback
LengthsAround(lookback) == {0, lookback - 1, lookback, lookback + 1}

\* what generate hands back: the Signal's side, and the caller's DataFrame
\* and the strategy object as the call leaves them
Generated(side, df, self) == [side |-> side, df |-> df, self |-> self]

AsRat(series) == [i \in 1..Len(series) |-> Rat(series[i])]

SMAEMAParams == {[fast |-> 1, slow |-> 2], [fast |-> 2, slow |-> 3], [fast |-> 3, slow |-> 2]}

\* SMAEMACrossover.generate without df = df.copy(): the columns go to the input
SMAEMACrossover_generate_in_place(self, df) ==
    LET n == Len(df.close)
    IN  IF n < Max(self.fast, self.slow) + 2 THEN Generated("FLAT", df, self)
        ELSE LET d   == [df EXCEPT !.columns = @ \cup {"sma", "ema"}]
                 ema == ewm_mean(AsRat(df.close), self.slow)
                 c1_sma == rolling_mean(df.close, self.fast, n)
                 p1_sma == rolling_mean(df.close, self.fast, n - 1)
                 buy  == Lt(p1_sma, <<ema[n - 1]>>) /\ Lt(<<ema[n]>>, c1_sma)
                 sell == Lt(<<ema[n - 1]>>, p1_sma) /\ Lt(c1_sma, <<ema[n]>>)
             IN  Generated(IF buy THEN "BUY" ELSE IF sell THEN "SELL" ELSE "FLAT", d, self)

\* SMAEMACrossover.generate whose length test is short by one bar
SMAEMACrossover_generate_short_guard(self, df) ==
    LET n == Len(df.close)
    IN  IF n < Max(self.fast, self.slow) + 1 THEN Generated("FLAT", df, self)
        ELSE LET ema == ewm_mean(AsRat(df.close), self.slow)
                 c1_sma == rolling_mean(df.close, self.fast, n)
                 p1_sma == rolling_mean(df.close, self.fast, n - 1)
                 buy  == Lt(p1_sma, <<ema[n - 1]>>) /\ Lt(<<ema[n]>>, c1_sma)
                 sell == Lt(<<ema[n - 1]>>, p1_sma) /\ Lt(c1_sma, <<ema[n]>>)
             IN  Generated(IF buy THEN "BUY" ELSE IF sell THEN "SELL" ELSE "FLAT", df, self)

\* SMAEMACrossover.generate: the columns sma and ema go to a copy of df
SMAEMACrossover_generate(self, df) ==
    LET n == Len(df.close)
    IN  IF n < Max(self.fast, self.slow) + 2 THEN Generated("FLAT", df, self)
        ELSE LET ema == ewm_mean(AsRat(df.close), self.slow)
                 c1_sma == rolling_mean(df.close, self.fast, n)
                 p1_sma == rolling_mean(df.close, self.fast, n - 1)
                 buy  == Lt(p1_sma, <<ema[n - 1]>>) /\ Lt(<<ema[n]>>, c1_sma)
                 sell == Lt(<<ema[n - 1]>>, p1_sma) /\ Lt(c1_sma, <<ema[n]>>)
             IN  Generated(IF buy THEN "BUY" ELSE IF sell THEN "SELL" ELSE "FLAT", df, self)

RSIParams == {[length |-> 2, ob |-> 70, os |-> 30], [length |-> 3, ob |-> 70, os |-> 30]}

\* the last value of talib.RSI or pandas_ta.rsi, which the library decides:
\* a percentage, or NaN
RsiValues == {<<>>, <<Rat(0)>>, <<Rat(20)>>, <<Rat(30)>>, <<Rat(50)>>, <<Rat(80)>>}

\* both libraries give NaN for the first length bars
rsi_last(close, length, library_value) ==
    IF Len(close) <= length THEN <<>> ELSE library_value

\* RSIReversal.generate; it reads df['close'] and writes nothing
RSIReversal_generate(self, df, library_value) ==
    IF Len(df.close) < self.length + 2 THEN Generated("FLAT", df, self)
    ELSE LET val == rsi_last(df.close, self.length, library_value)
         IN  IF Lt(val, <<Rat(self.os)>>) THEN Generated("BUY", df, self)
             ELSE IF Lt(<<Rat(self.ob)>>, val) THEN Generated("SELL", df, self)
             ELSE Generated("FLAT", df, self)

AlligatorParams ==
    {[jaw |-> 3, teeth |-> 2, lips |-> 1, smooth |-> 1, lookback |-> 1],
     [jaw |-> 3, teeth |-> 2, lips |-> 1, smooth |-> 2, lookback |-> 2]}

\* Alligator.generate: trend by the three smoothed averages, and a close
\* beyond the high or low of the lookback bars before the last one
Alligator_generate(self, df) ==
    LET n == Len(df.close)
    IN  IF n < Max(Max(self.jaw, self.teeth), self.lips) + self.lookback + 2
        THEN Generated("FLAT", df, self)
        ELSE LET jaw   == smoothed_ma(AsRat(df.close), self.jaw, self.smooth)[n]
                 teeth == smoothed_ma(AsRat(df.close), self.teeth, self.smooth)[n]
                 lips  == smoothed_ma(AsRat(df.close), self.lips, self.smooth)[n]
                 up    == RatLt(teeth, lips) /\ RatLt(jaw, teeth)
                 down  == RatLt(lips, teeth) /\ RatLt(teeth, jaw)
                 hi    == rolling_max(df.high, self.lookback, n - 1)
                 lo    == rolling_min(df.low, self.lookback, n - 1)
                 c     == <<Rat(df.close[n])>>
             IN  IF up /\ Lt(hi, c) THEN Generated("BUY", df, self)
                 ELSE IF down /\ Lt(c, lo) THEN Generated("SELL", df, self)
                 ELSE Generated("FLAT", df, self)

\* fib levels in thousandths, the tolerance in ten-thousandths
FibLevels == {382, 500, 618}

FibElliottParams == [zigzag_pct : ZigzagPcts, fib_levels : {FibLevels}, tol : {15}]

SetMax(S) == CHOOSE x \in S : \A y \in S : y <= x

SetMin(S) == CHOOSE x \in S : \A y \in S : x <= y

\* any(abs(price - rl) / price <= tol) for rl = anchor + sign * lvl * diff
NearRetracement(price, anchor, sign, diff, levels, tol) ==
    \E lvl \in levels :
        Abs(1000 * price - (1000 * anchor + sign * lvl * diff)) * 10 <= tol * price

\* FibElliott.generate: the last swing between two pivots and the close
\* near one of its retracement levels
FibElliott_generate(self, df) ==
    LET n == Len(df.close)
    IN  IF n < 60 THEN Generated("FLAT", df, self)
        ELSE LET piv == dropna_index(zigzag_pivots(df.close, self.zigzag_pct), 1)
             IN  IF Len(piv) < 2 THEN Generated("FLAT", df, self)
                 ELSE LET last == piv[Len(piv)]
                          prev == piv[Len(piv) - 1]
                          swing_high == SetMax({df.close[j] : j \in prev..last})
                          swing_low  == SetMin({df.close[j] : j \in prev..last})
                          price == df.close[n]
                          up_move == df.close[last] > df.close[prev]
                          diff == swing_high - swing_low
                      IN  IF swing_high <= swing_low THEN Generated("FLAT", df, self)
                          ELSE IF up_move /\ NearRetracement(price, swing_high, -1, diff,
                                                             self.fib_levels, self.tol)
                          THEN Generated("BUY", df, self)
                          ELSE IF ~up_move /\ NearRetracement(price, swing_low, 1, diff,
                                                              self.fib_levels, self.tol)
                          THEN Generated("SELL", df, self)
                          ELSE Generated("FLAT", df, self)

AlligatorEWFibParams ==
    {[jaw |-> 3, teeth |-> 2, lips |-> 1, smooth |-> 1, zigzag_pct |-> 2,
      fib_levels |-> FibLevels, fib_tol |-> 15],
     [jaw |-> 3, teeth |-> 2, lips |-> 1, smooth |-> 2, zigzag_pct |-> 5,
      fib_levels |-> FibLevels, fib_tol |-> 15]}

\* AlligatorEWFib.generate: the Alligator's trend and a close near a
\* retracement level of the last swing
AlligatorEWFib_generate(self, df) ==
    LET n == Len(df.close)
    IN  IF n < Max(Max(self.jaw, self.teeth), self.lips) + 30
        THEN Generated("FLAT", df, self)
        ELSE LET jaw   == alligator_ew_fib_smoothed_ma(AsRat(df.close), self.jaw, self.smooth)[n]
                 teeth == alligator_ew_fib_smoothed_ma(AsRat(df.close), self.teeth, self.smooth)[n]
                 lips  == alligator_ew_fib_smoothed_ma(AsRat(df.close), self.lips, self.smooth)[n]
                 up    == RatLt(teeth, lips) /\ RatLt(jaw, teeth)
                 down  == RatLt(lips, teeth) /\ RatLt(teeth, jaw)
                 piv   == dropna_index(alligator_ew_fib_zigzag_pivots(df.close, self.zigzag_pct), 1)
             IN  IF Len(piv) < 2 THEN Generated("FLAT", df, self)
                 ELSE LET last == piv[Len(piv)]
                          prev == piv[Len(piv) - 1]
                          swing_high == SetMax({df.close[j] : j \in prev..last})
                          swing_low  == SetMin({df.close[j] : j \in prev..last})
                          diff == swing_high - swing_low
                          price == df.close[n]
                      IN  IF up /\ swing_high > swing_low
                             /\ NearRetracement(price, swing_high, -1, diff,
                                                self.fib_levels, self.fib_tol)
                          THEN Generated("BUY", df, self)
                          ELSE IF down /\ swing_high > swing_low
                                  /\ NearRetracement(price, swing_low, 1, diff,
                                                     self.fib_levels, self.fib_tol)
                          THEN Generated("SELL", df, self)
                          ELSE Generated("FLAT", df, self)

\* the minimum lookback each generate tests
MinLookback(strategy, self) ==
    CASE strategy = "SMAEMACrossover" -> Max(self.fast, self.slow) + 2
      [] strategy = "RSIReversal"     -> self.length + 2
      [] strategy = "Alligator"       -> Max(Max(self.jaw, self.teeth), self.lips)
                                            + self.lookback + 2
      [] strategy = "FibElliott"      -> 60
      [] strategy = "AlligatorEWFib"  -> Max(Max(self.jaw, self.teeth), self.lips) + 30

\* the record of one generate call and of a second call on what the first left
GenerateCalled(strategy, self, df, first, again) ==
    Call(strategy, <<self, df>>,
         Ret([side |-> first.side, df |-> first.df, self |-> first.self,
              again |-> again.side]))

SMAEMACrossoverCall ==
    /\ call = NoCall
    /\ \E self \in SMAEMAParams, tail \in Tails :
        \E n \in LengthsAround(MinLookback("SMAEMACrossover", self)) :
            /\ Len(tail) <= n
            /\ \E df \in {Frame(n, tail, 0)} :
                \E first \in {SMAEMACrossover_generate(self, df)} :
                \E again \in {SMAEMACrossover_generate(first.self, first.df)} :
                    call' = GenerateCalled("SMAEMACrossover", self, df, first, again)
    /\ UNCHANGED <<riskVars, regCalls, lossSum, confVars, mainVars, jobVars, schedVars, notifVars>>

RSIReversalCall ==
    /\ call = NoCall
    /\ \E self \in RSIParams, library_value \in RsiValues :
        \E n \in LengthsAround(MinLookback("RSIReversal", self)) :
            \E df \in {Frame(n, <<>>, 0)} :
            \E first \in {RSIReversal_generate(self, df, library_value)} :
            \E again \in {RSIReversal_generate(first.self, first.df, library_value)} :
                call' = GenerateCalled("RSIReversal", self, df, first, again)
    /\ UNCHANGED <<riskVars, regCalls, lossSum, confVars, mainVars, jobVars, schedVars, notifVars>>

AlligatorCall ==
    /\ call = NoCall
    /\ \E self \in AlligatorParams, tail \in Tails, spread \in Spreads :
        \E n \in LengthsAround(MinLookback("Alligator", self)) :
            /\ Len(tail) <= n
            /\ \E df \in {Frame(n, tail, spread)} :
                \E first \in {Alligator_generate(self, df)} :
                \E again \in {Alligator_generate(first.self, first.df)} :
                    call' = GenerateCalled("Alligator", self, df, first, again)
    /\ UNCHANGED <<riskVars, regCalls, lossSum, confVars, mainVars, jobVars, schedVars, notifVars>>

FibElliottCall ==
    /\ call = NoCall
    /\ \E self \in FibElliottParams, tail \in Tails :
        \E n \in LengthsAround(MinLookback("FibElliott", self)) :
            /\ Len(tail) <= n
            /\ \E df \in {Frame(n, tail, 0)} :
                \E first \in {FibElliott_generate(self, df)} :
                \E again \in {FibElliott_generate(first.self, first.df)} :
                    call' = GenerateCalled("FibElliott", self, df, first, again)
    /\ UNCHANGED <<riskVars, regCalls, lossSum, confVars, mainVars, jobVars, schedVars, notifVars>>

AlligatorEWFibCall ==
    /\ call = NoCall
    /\ \E self \in AlligatorEWFibParams, tail \in Tails :
        \E n \in LengthsAround(MinLookback("AlligatorEWFib", self)) :
            /\ Len(tail) <= n
            /\ \E df \in {Frame(n, tail, 0)} :
                \E first \in {AlligatorEWFib_generate(self, df)} :
                \E again \in {AlligatorEWFib_generate(first.self, first.df)} :
                    call' = GenerateCalled("AlligatorEWFib", self, df, first, again)
    /\ UNCHANGED <<riskVars, regCalls, lossSum, confVars, mainVars, jobVars, schedVars, notifVars>>

\* the arguments of smoothed_ma: spans, and smooth values down to 0 and below
SmoothLengths == {1, 2}

Smooths == {-1, 0, 1, 2}

\* smoothed_ma of alligator.py and of alligator_ew_fib.py on the same input
SmoothedMaCall ==
    /\ call = NoCall
    /\ \E series \in Tails, length \in SmoothLengths, smooth \in Smooths :
        call' = Call("smoothed_ma", <<series, length, smooth>>,
                     Ret([alligator |-> smoothed_ma(AsRat(series), length, smooth),
                          alligator_ew_fib |->
                              alligator_ew_fib_smoothed_ma(AsRat(series), length, smooth)]))
    /\ UNCHANGED <<riskVars, regCalls, lossSum, confVars, mainVars, jobVars, schedVars, notifVars>>

NextStrat ==
    \/ ZigzagPivotsCall
    \/ AlligatorEWFibZigzagPivotsCall
    \/ SmoothedMaCall
    \/ SMAEMACrossoverCall
    \/ RSIReversalCall
    \/ AlligatorCall
    \/ FibElliottCall
    \/ AlligatorEWFibCall

SpecStrat == InitPure /\ [][NextStrat]_vars

---------------------------------------------------------------------------
\* main from the building of the strategies to "Runner stopped.", with the
\* scheduler's thread running job beside it.

StrategyNames == {"", "sma_ema_crossover", "fib_elliott", "alligator_ew_fib", "macd"}

\* main, lines 339-346, that leaves the building of the strategies to job
MainBuildStrategies_lazily ==
    /\ main_pc = "build"
    /\ main_pc' = "start"
    /\ UNCHANGED <<riskVars, histVars, confVars, jobVars, schedVars, notifVars,
                   RUNNING, scheduler_up, logged_in, strategy_name, strategies>>

\* main, lines 339-346: one strategy object per instrument, or ValueError
MainBuildStrategies ==
    /\ main_pc = "build"
    /\ IF strategy_name # "" /\ NumInst > 0 /\ build_strategy(strategy_name).exc # "none"
       THEN main_pc' = "raised" /\ UNCHANGED strategies
       ELSE /\ main_pc' = "start"
            /\ strategies' = IF strategy_name # "" THEN 1..NumInst ELSE {}
    /\ UNCHANGED <<riskVars, histVars, confVars, jobVars, schedVars, notifVars,
                   RUNNING, scheduler_up, logged_in, strategy_name>>

\* main, lines 348-362: the scheduler is started, the handlers are installed
MainStartScheduler ==
    /\ main_pc = "start"
    /\ scheduler_up' = TRUE
    /\ main_pc' = "loop"
    /\ UNCHANGED <<riskVars, histVars, confVars, jobVars, schedVars, notifVars,
                   RUNNING, logged_in, strategy_name, strategies>>

\* handle_sig: SIGINT or SIGTERM arrives while main is in its loop
handle_sig ==
    /\ main_pc \in {"loop", "sleep"}
    /\ RUNNING
    /\ RUNNING' = FALSE
    /\ UNCHANGED <<riskVars, histVars, confVars, jobVars, schedVars, notifVars,
                   main_pc, scheduler_up, logged_in, strategy_name, strategies>>

\* main, line 365: while RUNNING
MainLoopCheck ==
    /\ main_pc = "loop"
    /\ main_pc' = IF RUNNING THEN "sleep" ELSE "shutdown"
    /\ UNCHANGED <<riskVars, histVars, confVars, jobVars, schedVars, notifVars,
                   RUNNING, scheduler_up, logged_in, strategy_name, strategies>>

\* main, line 366: time.sleep(1) returns; a handled signal does not cut it short
MainSleep ==
    /\ main_pc = "sleep"
    /\ main_pc' = "loop"
    /\ UNCHANGED <<riskVars, histVars, confVars, jobVars, schedVars, notifVars,
                   RUNNING, scheduler_up, logged_in, strategy_name, strategies>>

\* main, line 368: scheduler.shutdown(wait=False) stops the scheduler and
\* returns without waiting for a running job
MainShutdown ==
    /\ main_pc = "shutdown"
    /\ scheduler_up' = FALSE
    /\ main_pc' = "logout"
    /\ UNCHANGED <<riskVars, histVars, confVars, jobVars, schedVars, notifVars,
                   RUNNING, logged_in, strategy_name, strategies>>

\* main, lines 369-370: auth.logout(), "Runner stopped."
MainLogout ==
    /\ main_pc = "logout"
    /\ logged_in' = FALSE
    /\ main_pc' = "stopped"
    /\ UNCHANGED <<riskVars, histVars, confVars, jobVars, schedVars, notifVars,
                   RUNNING, scheduler_up, strategy_name, strategies>>

\* main, lines 255-338: logged in, everything built but the strategies
InitMain ==
    /\ InitJob
    /\ cfg.balance = 100
    /\ cfg.max_daily_trades = MaxTradesCfg
    /\ instruments = [i \in 1..NumInst |-> [pip_size |-> 1, lot_size |-> 3, stop_distance_pips |-> 2]]
    /\ has_notifier
    /\ strategy_name \in StrategyNames
    /\ has_strategy = (strategy_name # "")
    /\ main_pc = "build"
    /\ RUNNING = TRUE
    /\ scheduler_up = FALSE
    /\ logged_in = TRUE
    /\ strategies = {}

NextMain ==
    \/ MainBuildStrategies
    \/ MainStartScheduler
    \/ handle_sig
    \/ MainLoopCheck
    \/ MainSleep
    \/ MainShutdown
    \/ MainLogout
    \/ JobSkipTick
    \/ JobStartTick
    \/ JobFetch
    \/ JobGenerate
    \/ JobRisk
    \/ JobAlert
    \/ JobPlace
    \/ JobRecord

SpecMain == InitMain /\ [][NextMain]_vars

---------------------------------------------------------------------------
\* Properties.

\* can_trade returned v (and did not raise) in the current state
CanTradeReturns(v) ==
    LET r == can_trade(daily_loss, daily_trades, cfg)
    IN  r.exc = "none" /\ r.val = v

\* C1: the orders successfully submitted through Executor.place_market never
\* exceed RiskConfig.max_daily_trades (the runner never calls reset_day, so
\* "since the last reset_day" is since the start of the run).
C1_OrdersWithinDailyLimit == orders <= cfg.max_daily_trades

\* the limit was reached by several orders and a later instrument was refused
\* by can_trade
C1_Witness ==
    /\ orders = cfg.max_daily_trades
    /\ orders >= 2
    /\ jobExc = "none"
    /\ steps # <<>>
    /\ steps[Len(steps)] = "can_trade"

\* C2: once register_trade has been called max_daily_trades times since the
\* last reset_day, whatever the pnl values and whatever can_trade and
\* position_size calls came between, can_trade returns false, in that state and
\* in every later one until reset_day is called.
C2_TradeLimitRefuses ==
    regCalls >= cfg.max_daily_trades =>
        /\ CanTradeReturns(FALSE)
        /\ call.op = "can_trade" => (call.res.exc = "none" /\ call.res.val = FALSE)

\* can_trade was called after exactly max_daily_trades profitable trades
C2_Witness ==
    /\ call.op = "can_trade"
    /\ regCalls = cfg.max_daily_trades
    /\ regCalls >= 2
    /\ lossSum = 0
    /\ cfg.max_daily_loss_pct > 0
    /\ call.res.val = FALSE

\* C3: once the losses registered since the last reset_day reach
\* max_daily_loss_pct percent of balance, can_trade returns false.
C3_LossLimitRefuses ==
    lossSum * 100 >= cfg.max_daily_loss_pct * cfg.balance => CanTradeReturns(FALSE)

\* C4: can_trade returns true exactly when the daily trade count is below
\* max_daily_trades and the daily loss, as a percentage of balance, is below
\* max_daily_loss_pct; and it leaves both counters as they were.
C4_CanTradeQuery ==
    call.op = "can_trade" =>
        /\ (call.res.exc = "none" /\ call.res.val)
             <=> /\ call.pre[2] < cfg.max_daily_trades
                 /\ call.pre[1] * 100 < cfg.max_daily_loss_pct * cfg.balance
        /\ <<daily_loss, daily_trades>> = call.pre

\* can_trade returned true with trades and losses on the day's account
C4_Witness ==
    /\ call.op = "can_trade"
    /\ call.res.exc = "none"
    /\ call.res.val
    /\ daily_trades > 0
    /\ daily_loss > 0

\* C5: register_trade(pnl) adds exactly 1 to the daily trade count for every
\* pnl; it adds |pnl| to the daily loss when pnl < 0 and leaves the daily loss
\* as it was when pnl >= 0.
C5_RegisterTrade ==
    call.op = "register_trade" =>
        /\ daily_trades = call.pre[2] + 1
        /\ call.args[1] < 0 => daily_loss = call.pre[1] + Abs(call.args[1])
        /\ call.args[1] >= 0 => daily_loss = call.pre[1]

\* a profit was registered after a loss
C5_Witness ==
    /\ call.op = "register_trade"
    /\ call.args[1] > 0
    /\ call.pre[1] > 0

\* C6: the daily loss and the daily trade count are never negative, and no
\* call other than reset_day leaves either of them smaller than it found it.
C6_CountersMonotone ==
    /\ daily_loss >= 0
    /\ daily_trades >= 0
    /\ call.op \in {"can_trade", "position_size", "register_trade"} =>
            /\ daily_loss >= call.pre[1]
            /\ daily_trades >= call.pre[2]

\* the largest profit was registered on top of the day's losses
C6_Witness ==
    /\ call.op = "register_trade"
    /\ call.args[1] = MaxPnl
    /\ call.pre[1] >= 2
    /\ call.pre[2] >= 2

\* C7: reset_day zeroes both counters from any state, a second reset_day
\* changes nothing, and afterwards can_trade returns true whenever
\* max_daily_trades > 0 and max_daily_loss_pct > 0.
C7_ResetDay ==
    call.op = "reset_day" =>
        /\ daily_loss = 0
        /\ daily_trades = 0
        /\ reset_day(daily_loss, daily_trades) = <<daily_loss, daily_trades>>
        /\ (cfg.max_daily_trades > 0 /\ cfg.max_daily_loss_pct > 0) => CanTradeReturns(TRUE)

C10_GovernorNeverRaises ==
    /\ call.op \in {"position_size", "can_trade"} => call.res.exc = "none"
    /\ (call.op = "position_size" /\ call.args[1] = call.args[2]) => call.res.val = 0


\* the steps of the current instrument that are not candle writes
IsGateStep(s) == s \notin {"write_candles", "write_candles_failed"}

LastStep == IF steps = <<>> THEN "none" ELSE steps[Len(steps)]

\* C11: within job, place_market is called for an instrument only after, in
\* this order, the bars were non-empty, the strategy returned BUY or SELL,
\* can_trade returned true, position_size returned a size > 0 and, when a
\* notifier is configured, handle_trade_alert returned approval; when a gate
\* fails, no order is submitted for that instrument in that tick.
C11_GatesBeforeOrder ==
    /\ \A i \in 1..Len(steps) :
        steps[i] \in {"place_market", "place_market_failed"} =>
            /\ SelectSeq(SubSeq(steps, 1, i - 1), IsGateStep)
                 = <<"fetch_historical", "generate", "can_trade", "position_size">>
                   \o (IF has_notifier THEN <<"handle_trade_alert">> ELSE <<>>)
            /\ cur.close \in Closes
            /\ cur.side \in {"BUY", "SELL"}
            /\ cur.size > 0
    /\ pc \in {"place", "record"} =>
        /\ cur.close \in Closes
        /\ cur.side \in {"BUY", "SELL"}
        /\ CanTradeReturns(TRUE)
        /\ LET ps == position_size(cfg, cur.close, cur.sl,
                                   instruments[idx].pip_size, instruments[idx].lot_size)
           IN  ps.exc = "none" /\ ps.val = cur.size /\ cur.size > 0
        /\ has_notifier => LastStep \in {"handle_trade_alert", "place_market"}
    /\ (\/ cur.side \notin {"BUY", "SELL"}
        \/ cur.size <= 0
        \/ \E i \in 1..Len(steps) : steps[i] = "handle_trade_alert_rejected")
       => /\ pc \notin {"place", "record"}
          /\ \A i \in 1..Len(steps) : steps[i] \notin {"place_market", "place_market_failed"}

\* an order was submitted after an approved alert, the candle write before it
\* having failed
C11_Witness ==
    /\ has_notifier
    /\ has_sink
    /\ pc = "record"
    /\ steps = <<"fetch_historical", "write_candles_failed", "generate", "can_trade",
                 "position_size", "handle_trade_alert", "place_market">>

\* C12: a tick whose UTC hour is outside the session window is a complete
\* no-op: job returns without a fetch, a candle write, a strategy evaluation,
\* an alert or an order, and the RiskManager's counters are unchanged.
C12_OutOfSessionNoOp ==
    [][(pc = "idle" /\ ticks' = ticks + 1 /\ ~in_session') =>
          /\ pc' = "idle"
          /\ steps' = <<>>
          /\ UNCHANGED <<cfg, daily_loss, daily_trades, regCalls, orders>>]_vars

\* a tick outside the window came after a tick that traded
C12_Witness ==
    /\ ticks = 2
    /\ ~in_session
    /\ pc = "idle"
    /\ steps = <<>>
    /\ orders >= 1
    /\ daily_trades >= 1


\* the loop of job goes on after the current instrument: to the next
\* instrument, or to the normal end of job after the last one
NextInstrument ==
    /\ jobExc' = "none"
    /\ \/ idx < NumInst /\ pc' = "fetch" /\ idx' = idx + 1
       \/ idx = NumInst /\ pc' = "idle" /\ idx' = 0

\* C14: a failure while handling one instrument (a bar fetch error, which
\* fetch_historical turns into an empty frame, a candle write error, a
\* trade-record write error or an order submission error) never keeps the
\* remaining instruments from being processed in the same tick and never
\* propagates out of job.
C14_InstrumentFailuresContained ==
    [][/\ (pc = "fetch" /\ has_strategy /\ cur' = NoCur) => NextInstrument
       /\ (pc = "fetch" /\ steps' # <<>> /\ steps'[Len(steps')] = "write_candles_failed")
             => (jobExc' = "none" /\ pc' = "generate" /\ idx' = idx)
       /\ (pc = "place" /\ steps'[Len(steps')] = "place_market_failed") => NextInstrument
       /\ (pc = "record" /\ \E i \in 1..Len(steps') : steps'[i] = "log_trade_failed")
             => NextInstrument]_vars

\* the order of the first instrument failed and the second instrument is next
C14_Witness ==
    /\ pc = "fetch"
    /\ idx = 2
    /\ jobExc = "none"
    /\ LastStep = "place_market_failed"

\* C15: when place_market raises for an instrument, job records no trade,
\* sends no execution notice and does not call register_trade for it (the
\* daily trade count is unchanged), and continues with the next instrument.
C15_FailedOrderNotRegistered ==
    [][/\ (pc = "place" /\ steps'[Len(steps')] = "place_market_failed") =>
             /\ UNCHANGED <<daily_loss, daily_trades, regCalls, orders>>
             /\ NextInstrument
       /\ \A i \in 1..Len(steps') :
             steps'[i] = "place_market_failed" => (i = Len(steps') /\ pc' # "record")]_vars

\* an order failed after an earlier order of the run had succeeded, with a
\* sink and a notifier configured
C15_Witness ==
    /\ has_sink
    /\ has_notifier
    /\ LastStep = "place_market_failed"
    /\ daily_trades = 1
    /\ orders = 1
    /\ regCalls = 1

\* C16: after every successful place_market, job calls register_trade(0.0)
\* exactly once before the next instrument, also when log_trade fails and when
\* no sink or no notifier is configured; a failed candle write does not stop
\* the instrument from being evaluated and traded.
C16_EveryOrderRegisteredOnce ==
    [][/\ pc = "record" =>
             /\ daily_trades' = daily_trades + 1
             /\ daily_loss' = daily_loss
             /\ regCalls' = regCalls + 1
             /\ steps'[Len(steps')] = "register_trade"
             /\ NextInstrument
       /\ regCalls' = IF pc' = "record" THEN orders' - 1 ELSE orders'
       /\ daily_trades' = regCalls'
       /\ (pc = "fetch" /\ steps' # <<>> /\ steps'[Len(steps')] = "write_candles_failed")
             => pc' = "generate"]_vars

\* the candle write and the trade-record write both failed, and the order was
\* placed and registered
C16_Witness ==
    /\ steps = <<"fetch_historical", "write_candles_failed", "generate", "can_trade",
                 "position_size", "place_market", "log_trade_failed", "register_trade">>
    /\ ~has_notifier
    /\ daily_trades = orders
    /\ orders >= 1


\* the running handle_trade_alert call has consumed an update that carries a
\* decision for its symbol
ConsumedDecision ==
    \E i \in 1..Len(inbox) :
        /\ alert_pre[1] = <<>> \/ inbox[i].update_id > alert_pre[1][1]
        /\ last_update_id # <<>>
        /\ inbox[i].update_id <= last_update_id[1]
        /\ UpdateDecision(inbox[i], Lower(expected_symbol)) # "None"

\* C17: with confirmation required, a confirmation request always terminates,
\* and when no decision reply was consumed before the deadline it returns
\* False and job submits no order; so it is when every poll fails and when
\* confirmation_timeout is 0.
C17_ConfirmationTimesOut ==
    /\ []((require_confirmation /\ npc = "return") =>
            /\ result \in {"True", "False"}
            /\ ~ConsumedDecision => result = "False"
            /\ last_update_id = alert_pre[1] => result = "False"
            /\ confirmation_timeout = 0 => (polls = 0 /\ result = "False"))
    /\ [][(npc = "return" /\ npc' = "idle" /\ result = "False") =>
            (orders' = orders /\ steps' = <<"handle_trade_alert_rejected">>)]_vars
    /\ (require_confirmation /\ npc = "send") ~> (npc = "return")

\* an approving reply waits on the server, every poll failed, and the request
\* was rejected at the deadline
C17_Witness ==
    /\ require_confirmation
    /\ npc = "return"
    /\ result = "False"
    /\ polls >= 2
    /\ last_update_id = <<>>
    /\ inbox # <<>>
    /\ inbox[1].text = <<"YES">>

\* C19: in auto-approve mode handle_trade_alert returns True at once: it makes
\* no getUpdates call, does not wait, leaves _last_update_id as it was, and
\* returns True also when sending the alert fails.
C19_AutoApprove ==
    ~require_confirmation =>
        /\ npc \notin {"loop", "poll", "sleep", "timeout"}
        /\ polls = 0
        /\ last_update_id = <<>>
        /\ npc = "return" =>
            /\ result = "True"
            /\ last_update_id = alert_pre[1]
            /\ clock = alert_pre[2]

\* the alert could not be sent, replies wait unread on the server, and the
\* second request of the run is approved
C19_Witness ==
    /\ ~require_confirmation
    /\ npc = "return"
    /\ send_failed
    /\ result = "True"
    /\ requests = 2
    /\ orders = 1
    /\ Len(inbox) = 2


\* the hours of the session window from start to end
SessionWindow(start, end) ==
    IF start <= end THEN {h \in HoursOfDay : start <= h /\ h < end}
    ELSE {h \in HoursOfDay : h >= start} \cup {h \in HoursOfDay : h < end}

\* C13: within_session is true exactly when start <= hour < end if
\* start <= end, and exactly when hour >= start or hour < end if start > end,
\* for every hour 0..23 and every start, end in 0..24; the window 22..6
\* contains hour 23 and not hour 10, and a window with start = end is empty.
C13_WithinSession ==
    call.op = "within_session" =>
        LET hour  == call.args[1]
            start == call.args[2]
            end   == call.args[3]
        IN  /\ call.res.exc = "none"
            /\ call.res.val <=> hour \in SessionWindow(start, end)
            /\ (start = 22 /\ end = 6 /\ hour = 23) => call.res.val
            /\ (start = 22 /\ end = 6 /\ hour = 10) => ~call.res.val
            /\ start = end => ~call.res.val

\* hour 23 was found inside the window from 22 to 6
C13_Witness ==
    /\ call.op = "within_session"
    /\ call.args = <<23, 22, 6>>
    /\ call.res.val = TRUE

Approving == {"yes", "y", "buy", "long", "+"}
Rejecting == {"no", "n", "sell", "short", "-"}

\* C18 as stated: a reply whose first word is one of the ten commands is a
\* decision both when the requested symbol follows and when it is sent alone.
C18_SymbolOptional ==
    call.op = "_parse_decision" =>
        LET tokens == Tokens(call.args[1])
            symbol_token == Lower(call.args[2])
        IN  (Len(tokens) = 1 \/ tokens[2] = symbol_token) =>
                /\ tokens[1] \in Approving => call.res.val = "True"
                /\ tokens[1] \in Rejecting => call.res.val = "False"

\* C18, amended: yes, y, no and n are a decision both alone and followed by
\* the requested symbol; buy, long, +, sell, short and - are a decision only
\* when the requested symbol follows, and are ignored when sent alone; a
\* command followed by another word than the requested symbol is ignored.
C18_ParseDecision ==
    call.op = "_parse_decision" =>
        LET tokens == Tokens(call.args[1])
            symbol_token == Lower(call.args[2])
            alone == Len(tokens) = 1
            decision == IF tokens[1] \in Approving THEN "True"
                        ELSE IF tokens[1] \in Rejecting THEN "False" ELSE "None"
        IN  /\ call.res.exc = "none"
            /\ (alone /\ tokens[1] \in {"yes", "y", "no", "n"}) => call.res.val = decision
            /\ (alone /\ tokens[1] \notin {"yes", "y", "no", "n"}) => call.res.val = "None"
            /\ (~alone /\ tokens[2] = symbol_token) => call.res.val = decision
            /\ (~alone /\ tokens[2] # symbol_token) => call.res.val = "None"

\* "BUY" sent alone was ignored
C18_Witness ==
    /\ call.op = "_parse_decision"
    /\ call.args = <<<<"BUY">>, "EURUSD">>
    /\ call.res.val = "None"


\* C20: at most one invocation of job runs at any time: a tick that falls due
\* while job is running (for instance while it waits for a confirmation)
\* starts no second invocation and leaves no run for later, so the
\* RiskManager's counters have a single writer.
C20_SingleInvocation ==
    /\ [](/\ Running <= 1
          /\ extra = 0
          /\ invocations + skipped = ticks)
    /\ [][(pc # "idle" /\ ticks' = ticks + 1) =>
            /\ skipped' = skipped + 1
            /\ UNCHANGED <<riskVars, regCalls, pc, idx, in_session, orders, steps, cur, jobExc, invocations, extra>>]_vars

\* a tick was dropped while job waited in handle_trade_alert for the order of
\* its second instrument
C20_Witness ==
    /\ skipped = 1
    /\ invocations = 1
    /\ pc = "alert"
    /\ idx = 2
    /\ daily_trades = 1


\* C26: in job the daily-loss accumulator stays 0, because register_trade is
\* only called with pnl = 0.0; so, with max_daily_loss_pct > 0, can_trade
\* refuses only when the trade count has reached max_daily_trades.
C26_DailyLossInert ==
    /\ daily_loss = 0
    /\ lossSum = 0
    /\ (cfg.max_daily_loss_pct > 0 /\ CanTradeReturns(FALSE))
          => daily_trades >= cfg.max_daily_trades

\* two trades were registered over two ticks, and can_trade refuses on the
\* trade count with no loss recorded
C26_Witness ==
    /\ ticks = 2
    /\ regCalls = 2
    /\ daily_loss = 0
    /\ cfg.max_daily_trades = 2
    /\ cfg.balance > 0
    /\ CanTradeReturns(FALSE)

\* C27: the runner never calls reset_day: once max_daily_trades orders have
\* been submitted, the trade count keeps them all, can_trade is false in every
\* later tick and no further order is submitted.
C27_NoResetInRunner ==
    /\ daily_trades = IF pc = "record" THEN orders - 1 ELSE orders
    /\ orders >= cfg.max_daily_trades =>
          /\ orders = cfg.max_daily_trades
          /\ pc \notin {"alert", "place"}
          /\ pc # "record" => CanTradeReturns(FALSE)

\* the only order allowed was submitted in the first tick, and in the second
\* tick a signal was refused by can_trade
C27_Witness ==
    /\ cfg.max_daily_trades = 1
    /\ orders = 1
    /\ ticks = 2
    /\ in_session
    /\ invocations = 2
    /\ cur.side \in {"BUY", "SELL"}
    /\ LastStep = "can_trade"


\* a mode was given: it is not None and not blank
ModeGiven(mode) == _normalise_mode(mode) # <<>>

\* the mode, trimmed and upper-cased, is DEMO or LIVE
ModeSupported(mode) == ModeGiven(mode) /\ _normalise_mode(mode)[1] \in SUPPORTED_MODES

\* C28: _resolve_mode always returns DEMO or LIVE; a CLI mode that is DEMO or
\* LIVE after trimming and upper-casing is returned whatever the config mode
\* is; the config mode is used only when no CLI mode is given.
C28_CliModePreferred ==
    call.op = "_resolve_mode" =>
        LET cli_mode == call.args[1]
            cfg_mode == call.args[2]
        IN  /\ call.res.val \in SUPPORTED_MODES
            /\ ModeSupported(cli_mode) => call.res.val = _normalise_mode(cli_mode)[1]
            /\ ModeGiven(cli_mode) =>
                  \A other \in RawModes : _resolve_mode(cli_mode, other) = call.res.val

\* C29: an unknown mode falls back to DEMO: when the mode that was given (the
\* CLI mode, or the config mode when there is no CLI mode) is not DEMO or
\* LIVE after trimming and upper-casing, _resolve_mode returns DEMO, so a
\* mistyped mode never selects LIVE.
C29_UnknownModeIsDemo ==
    call.op = "_resolve_mode" =>
        LET cli_mode == call.args[1]
            cfg_mode == call.args[2]
        IN  /\ (ModeGiven(cli_mode) /\ ~ModeSupported(cli_mode)) => call.res.val = "DEMO"
            /\ (~ModeGiven(cli_mode) /\ ~ModeSupported(cfg_mode)) => call.res.val = "DEMO"

\* the value the claim describes for one credential name
ExpectedEnvName(ig_cfg, mode, n) ==
    LET own == {i \in 1..Len(ig_cfg.credentials) :
                    /\ StripUpper(ig_cfg.credentials[i].key) = mode
                    /\ ig_cfg.credentials[i].is_dict
                    /\ Truthy(ig_cfg.credentials[i].vals[n])}
    IN  IF own # {} THEN ig_cfg.credentials[CHOOSE i \in own : TRUE].vals[n]
        ELSE IF Truthy(ig_cfg.top[n]) THEN ig_cfg.top[n]
        ELSE <<>>

\* C30: for each of the five credential names _resolve_ig_env_names returns
\* the non-empty value of the selected mode's section if there is one, else
\* the non-empty top-level value, else None; a value set only under another
\* mode's section is never returned.
C30_ResolveIgEnvNames ==
    call.op = "_resolve_ig_env_names" =>
        LET ig_cfg == call.args[1]
            mode   == call.args[2]
        IN  /\ DOMAIN call.res.val = {"api_key", "username", "password", "account_type",
                                      "account_id"}
            /\ \A n \in DOMAIN call.res.val :
                  /\ call.res.val[n] = ExpectedEnvName(ig_cfg, mode, n)
                  /\ call.res.val[n] # <<"">>
                  /\ \A i \in 1..Len(ig_cfg.credentials) :
                        (/\ StripUpper(ig_cfg.credentials[i].key) # mode
                         /\ Truthy(ig_cfg.credentials[i].vals[n]))
                        => call.res.val[n] # ig_cfg.credentials[i].vals[n]

\* the LIVE section, spelled " Live " and listed after the DEMO section,
\* overrides two names; the empty password falls to None and the other
\* names to the top level
C30_Witness ==
    /\ call.op = "_resolve_ig_env_names"
    /\ call.args[2] = "LIVE"
    /\ Len(call.args[1].credentials) = 2
    /\ call.args[1].credentials[1].key = "DEMO"
    /\ call.args[1].credentials[1].vals["account_id"] = <<"DEMO", "account_id">>
    /\ call.res.val["api_key"] = <<" Live ", "api_key">>
    /\ call.res.val["password"] = <<>>
    /\ call.res.val["account_id"] = <<>>


\* C21: after a shutdown signal no new job tick starts, and a tick that is in
\* flight is not cut off: while it runs the scheduler is not torn down and
\* the broker session is not logged out.
C21_GracefulShutdown ==
    [][/\ ~RUNNING => invocations' = invocations
       /\ pc # "idle" => (scheduler_up' = scheduler_up /\ logged_in' = logged_in)]_vars

PivotReference(prices, index, k) == IF k = 1 THEN prices[1] ELSE prices[index[k - 1]]

\* +1 for a pivot above its reference, -1 for one below, 0 for an equal one
PivotDirection(prices, index, k) ==
    IF prices[index[k]] > PivotReference(prices, index, k) THEN 1
    ELSE IF prices[index[k]] < PivotReference(prices, index, k) THEN -1
    ELSE 0

\* C24: the pivots of zigzag_pivots alternate: of two consecutive pivots one
\* is marked on an upward move and the other on a downward move, and every
\* pivot differs from the pivot before it by at least pct percent.
C24_ZigzagAlternates ==
    call.op = "zigzag_pivots" =>
        LET prices == call.args[1]
            pct    == call.args[2]
            pivots == call.res.val
            index  == dropna_index(pivots, 1)
        IN  /\ call.res.exc = "none"
            /\ Len(pivots) = Len(prices)
            /\ \A i \in 1..Len(pivots) : pivots[i] # <<>> => pivots[i] = <<prices[i]>>
            /\ \A k \in 1..Len(index) :
                  /\ PivotDirection(prices, index, k) # 0
                  /\ Abs(prices[index[k]] - PivotReference(prices, index, k)) * 100
                        >= pct * PivotReference(prices, index, k)
                  /\ k > 1 => PivotDirection(prices, index, k)
                                 # PivotDirection(prices, index, k - 1)

\* a rise of 3 percent, a second rise of 3 percent that is no pivot, a fall, a rise
C24_Witness ==
    /\ call.op = "zigzag_pivots"
    /\ call.args = <<(<<100, 103, 106, 100, 103>>), 2>>
    /\ call.res.val = <<(<<>>), (<<103>>), (<<>>), (<<100>>), (<<103>>)>>


StrategyClasses == {"SMAEMACrossover", "RSIReversal", "Alligator", "FibElliott", "AlligatorEWFib"}

\* the minimum lookback of each strategy as documented
StatedLookback(strategy, self) ==
    CASE strategy = "SMAEMACrossover" -> Max(self.fast, self.slow) + 2
      [] strategy = "RSIReversal"     -> self.length + 2
      [] strategy = "Alligator"       -> Max(self.jaw, Max(self.teeth, self.lips))
                                            + self.lookback + 2
      [] strategy = "FibElliott"      -> 60
      [] strategy = "AlligatorEWFib"  -> Max(self.jaw, Max(self.teeth, self.lips)) + 30

\* C22: every strategy's generate returns FLAT for every bar series shorter
\* than its minimum lookback, the empty series included.
C22_FlatBelowLookback ==
    (/\ call.op \in StrategyClasses
     /\ Len(call.args[2].close) < StatedLookback(call.op, call.args[1]))
        => /\ call.res.exc = "none"
           /\ call.res.val.side = "FLAT"

\* one bar short of the lookback, with closes that cross the averages
C22_Witness ==
    /\ call.op = "SMAEMACrossover"
    /\ call.args[1] = [fast |-> 1, slow |-> 2]
    /\ call.args[2].close = <<100, 97, 106>>
    /\ call.res.val.side = "FLAT"

RECURSIVE EmaPasses(_, _, _)
EmaPasses(series, length, passes) ==
    IF passes = 0 THEN series ELSE EmaPasses(ewm_mean(series, length), length, passes - 1)

\* C32: smoothed_ma applies exactly max(1, smooth) EMA passes with span
\* length; for smooth <= 1, zero and negative values included, that is one
\* ema pass; the copies in alligator.py and alligator_ew_fib.py agree.
C32_SmoothedMaPasses ==
    call.op = "smoothed_ma" =>
        LET series == AsRat(call.args[1])
            length == call.args[2]
            smooth == call.args[3]
        IN  /\ call.res.exc = "none"
            /\ call.res.val.alligator = EmaPasses(series, length, Max(1, smooth))
            /\ smooth <= 1 => call.res.val.alligator = ewm_mean(series, length)
            /\ call.res.val.alligator_ew_fib = call.res.val.alligator

\* smooth = 2 on 100, 106, 97 with span 2: the second pass changes the values;
\* (1/3) * 100 + (2/3) * 106 = 104 after one pass, 308/3 after two
C32_Witness ==
    /\ call.op = "smoothed_ma"
    /\ call.args = <<(<<100, 106, 97>>), 2, 2>>
    /\ ewm_mean(AsRat(call.args[1]), 2)[2] = <<104, 1>>
    /\ call.res.val.alligator[2] = <<308, 3>>
    /\ call.res.val.alligator_ew_fib[2] = <<308, 3>>

\* C37: the copy of zigzag_pivots in alligator_ew_fib.py marks the same
\* positions with the same prices as the copy in fib_elliott.py; a series of
\* fewer than 3 points has no pivot and the first position is never marked.
C37_ZigzagCopiesAgree ==
    call.op = "alligator_ew_fib.zigzag_pivots" =>
        LET prices == call.args[1]
            pct    == call.args[2]
        IN  /\ call.res.exc = "none"
            /\ call.res.val = zigzag_pivots(prices, pct)
            /\ Len(prices) < 3 => \A i \in 1..Len(prices) : call.res.val[i] = <<>>
            /\ Len(prices) >= 1 => call.res.val[1] = <<>>

\* both copies mark the rise to 103 and the fall to 97, and nothing else
C37_Witness ==
    /\ call.op = "alligator_ew_fib.zigzag_pivots"
    /\ call.args = <<(<<100, 103, 103, 97>>), 2>>
    /\ call.res.val = <<(<<>>), (<<103>>), (<<>>), (<<97>>)>>
    /\ zigzag_pivots(call.args[1], call.args[2]) = call.res.val


\* C31: for an instrument that passed the risk gate, a BUY has its stop below
\* and its target above the latest close and a SELL the reverse; the stop is
\* max(stop_distance_pips, 1) * pip_size away and the target rr_ratio times
\* as far; pip_size is positive, the stop differs from the entry and the size
\* is a positive multiple of lot_size.
C31_StopTargetGeometry ==
    pc \in {"alert", "place", "record"} =>
        LET inst == instruments[idx]
            sl_distance == Max(inst.stop_distance_pips, 1) * inst.pip_size
        IN  /\ cur.side \in {"BUY", "SELL"}
            /\ inst.pip_size > 0
            /\ cur.side = "BUY"  => (cur.sl < cur.close /\ cur.close < cur.tp)
            /\ cur.side = "SELL" => (cur.tp < cur.close /\ cur.close < cur.sl)
            /\ Abs(cur.close - cur.sl) = sl_distance
            /\ Abs(cur.tp - cur.close) = cfg.rr_ratio * sl_distance
            /\ cur.sl # cur.close
            /\ cur.size > 0
            /\ inst.lot_size > 0
            /\ cur.size % inst.lot_size = 0

\* a SELL on the instrument whose stop_distance_pips is 0: one pip of 2 is used
C31_Witness ==
    /\ pc = "place"
    /\ cur.side = "SELL"
    /\ instruments[idx].stop_distance_pips = 0
    /\ instruments[idx].pip_size = 2
    /\ cur.sl = cur.close + 2
    /\ cur.tp = cur.close - 4
    /\ cur.size = 30


\* C33: within a tick the instruments are handled one after another in
\* configuration order: the index moves from k to k + 1 only, by a step of
\* instrument k itself; while job waits in handle_trade_alert nothing else of
\* job happens; and each can_trade check is made on a trade count that holds
\* every register_trade made so far, so it opens the gate only below
\* max_daily_trades.
C33_OneInstrumentAtATime ==
    [][/\ idx' # idx =>
             \/ pc = "idle" /\ idx = 0 /\ idx' = 1 /\ pc' = "fetch"
             \/ pc # "idle" /\ idx' = idx + 1 /\ pc' = "fetch"
             \/ pc # "idle" /\ idx = NumInst /\ idx' = 0 /\ pc' = "idle"
             \/ pc # "idle" /\ jobExc' # "none" /\ idx' = 0 /\ pc' = "idle"
       /\ (pc = "alert" /\ pc' = "alert") =>
             UNCHANGED <<riskVars, regCalls, idx, steps, cur, orders, invocations, extra>>
       /\ pc = "risk" =>
             /\ extra = 0
             /\ daily_trades = regCalls
             /\ regCalls = orders
             /\ pc' \in {"alert", "place"} => regCalls < cfg.max_daily_trades]_vars

\* in the second tick the first instrument traded and registered the third
\* trade of the day, and can_trade then refused the second instrument
C33_Witness ==
    /\ ticks = MaxTicks
    /\ pc = "idle"
    /\ jobExc = "none"
    /\ LastStep = "can_trade"
    /\ regCalls = 3
    /\ daily_trades = cfg.max_daily_trades
    /\ orders = 3


\* the place_market calls job has made for the instrument it handles
PlaceCalls == {i \in 1..Len(steps) : steps[i] \in {"place_market", "place_market_failed"}}

\* C34: job calls place_market at most once per instrument and tick; one call
\* makes at most 3 create_open_position attempts; it returns at the first
\* attempt that succeeds, so every attempt before it failed, and it raises only
\* after 3 failed attempts; the trade count follows the successful calls, one
\* per call whatever the number of attempts.
C34_BoundedOrderAttempts ==
    /\ Cardinality(PlaceCalls) <= 1
    /\ cur.attempts <= 3
    /\ PlaceCalls = {} => cur.attempts = 0
    /\ \A i \in PlaceCalls :
          /\ steps[i] = "place_market" =>
                (cur.attempts \in 1..3 /\ cur.failures = cur.attempts - 1)
          /\ steps[i] = "place_market_failed" =>
                (cur.attempts = 3 /\ cur.failures = 3)
    /\ daily_trades = IF pc = "record" THEN orders - 1 ELSE orders

\* an order that went through at the third attempt and was registered once
C34_Witness ==
    /\ LastStep = "register_trade"
    /\ cur.attempts = 3
    /\ cur.failures = 2
    /\ orders = 1
    /\ daily_trades = 1


\* the updates the running handle_trade_alert call has consumed (an update's
\* id is its position in inbox)
ConsumedUpdates ==
    {i \in 1..Len(inbox) :
        /\ alert_pre[1] = <<>> \/ inbox[i].update_id > alert_pre[1][1]
        /\ last_update_id # <<>>
        /\ inbox[i].update_id <= last_update_id[1]}

\* those of them that carry a decision for the requested symbol
DecidingUpdates ==
    {i \in ConsumedUpdates : UpdateDecision(inbox[i], Lower(expected_symbol)) # "None"}

\* the first of them: the reply that resolved the request
Resolver == CHOOSE i \in DecidingUpdates : \A j \in DecidingUpdates : i <= j

\* C35: a confirmation request is resolved only by a reply sent after the
\* request was made: a reply that already waited on the server when
\* handle_trade_alert was entered never approves or rejects it.
C35_OnlyFreshReplies ==
    (require_confirmation /\ npc = "return" /\ DecidingUpdates # {}) =>
        Resolver > alert_pre[3]

\* the updates a poll that moves _last_update_id from a to b has consumed
Batch(a, b) ==
    {i \in 1..Len(inbox) : (a = <<>> \/ inbox[i].update_id > a[1]) /\ inbox[i].update_id <= b[1]}

\* C36: a reply of two or more tokens whose second token is not the requested
\* symbol in lower case never resolves the request; an update a poll returned
\* is never returned again, since _last_update_id only grows and the next
\* poll starts behind it; and a poll that finds decisions returns the first of
\* them, the later ones of its batch being behind the offset from then on.
C36_MismatchAndSingleConsumption ==
    /\ []((require_confirmation /\ npc = "return" /\ DecidingUpdates # {}) =>
            LET tokens == Tokens(inbox[Resolver].text)
            IN  /\ result = UpdateDecision(inbox[Resolver], Lower(expected_symbol))
                /\ Len(tokens) >= 2 => tokens[2] = Lower(expected_symbol))
    /\ [][npc = "poll" =>
            /\ \/ last_update_id' = last_update_id
               \/ last_update_id = <<>>
               \/ last_update_id'[1] > last_update_id[1]
            /\ npc' = "return" =>
                  \E i \in Batch(last_update_id, last_update_id') :
                      /\ result' = UpdateDecision(inbox[i], Lower(expected_symbol))
                      /\ result' # "None"
                      /\ \A j \in Batch(last_update_id, last_update_id') :
                            j < i => UpdateDecision(inbox[j], Lower(expected_symbol)) = "None"]_vars

\* one poll returned a rejection and an approval: the request is rejected and
\* the approval lies behind the offset
C36_Witness ==
    /\ require_confirmation
    /\ npc = "return"
    /\ polls = 1
    /\ inbox = <<[update_id |-> 1, text |-> <<"no", "EURUSD">>],
                 [update_id |-> 2, text |-> <<"YES">>]>>
    /\ last_update_id = <<2>>
    /\ result = "False"

====
